---- MODULE Spec2Model ----
(***************************************************************************)
(* toco: an object-persistence layer over a hash/range-keyed table store.  *)
(*                                                                         *)
(* Two generations of the layer live in the repository and both are        *)
(* modelled:                                                               *)
(*   - TocoObject (src/src/toco/object.py), the packaged layer: attribute  *)
(*     bag _obj_dict, change record _obj_updates, _in_db flag, _save with  *)
(*     its four switches, _update, _create, _delete, _reload;              *)
(*   - Object (src/toco/object.py), the layer the user/session models are  *)
(*     built on: attributes in __dict__, save / update / create / reload.  *)
(* A behaviour runs under one of the two (variable impl).  The table store *)
(* is the external collaborator: one table, rows keyed by hash and range   *)
(* key, single-row conditional writes evaluated atomically.                *)
(***************************************************************************)
EXTENDS Integers, FiniteSets, Sequences, TLC

VARIABLES
    impl,       \* which layer the handles of this behaviour belong to
    table,      \* the table store: key -> item (EmptyItem when there is no row)
    handle,     \* the in-process handles: h -> the object's fields
    last        \* the last call made on a handle, its arguments and outcome

vars == <<impl, table, handle, last>>

(***************************************************************************)
(* Bounds of the model.                                                    *)
(***************************************************************************)
MaxVersion == 3         \* a save is attempted only below this local version

Handles == {"h1", "h2"}

(***************************************************************************)
(* Program constants.                                                      *)
(***************************************************************************)
VERSION_KEY == "version_toco_"
FKEY_PREFIX == "toco_fkey="
FKEY_EMPTY_STRING == "toco_fkey=EMPTY-STRING"

\* The schema of the modelled type: KeySchema with a HASH and a RANGE key,
\* and one type-declared required attribute.
HashKeyName == "hk"
RangeKeyName == "rk"
REQUIRED_ATTRS == {"req"}
DataAttr == "data"

\* Object._get_dict also persists the instance attribute in_db.
IN_DB_ATTR == "in_db"

(***************************************************************************)
(* Dictionaries (python dict) as functions.                                *)
(***************************************************************************)
EmptyItem == [x \in {} |-> ""]

DictPut(d, k, v) == [x \in (DOMAIN d) \cup {k} |-> IF x = k THEN v ELSE d[x]]

DictDel(d, k) == [x \in (DOMAIN d) \ {k} |-> d[x]]

DictUpdate(d, e) ==
    [x \in (DOMAIN d) \cup (DOMAIN e) |-> IF x \in DOMAIN e THEN e[x] ELSE d[x]]

DictRestrict(d, S) == [x \in (DOMAIN d) \cap S |-> d[x]]

\* python truthiness of an attribute value as used by "not dict_to_save[r]"
Falsy(v) == v = ""

(***************************************************************************)
(* The table store (external): get_item, put_item with a condition,        *)
(* delete_item.  A condition is a disjunction of conjunctions of atoms     *)
(* over the attributes of the item currently stored under the key.         *)
(***************************************************************************)
TheKey == [hk |-> "a", rk |-> "r"]

\* the key of a second row of the table, the row of a referenced object
OtherKey == [hk |-> "b", rk |-> "r"]

Keys == {TheKey, OtherKey}

AttrNotExists(n) == [op |-> "not_exists", attr |-> n, val |-> 0]
AttrExists(n) == [op |-> "exists", attr |-> n, val |-> 0]
AttrEq(n, v) == [op |-> "eq", attr |-> n, val |-> v]
AttrNe(n, v) == [op |-> "ne", attr |-> n, val |-> v]

NoCondition == << <<>> >>

AtomHolds(a, item) ==
    CASE a.op = "not_exists" -> a.attr \notin DOMAIN item
      [] a.op = "exists" -> a.attr \in DOMAIN item
      [] a.op = "eq" -> a.attr \in DOMAIN item /\ item[a.attr] = a.val
      [] a.op = "ne" -> a.attr \notin DOMAIN item \/ item[a.attr] # a.val

ConditionHolds(ce, item) ==
    \E i \in DOMAIN ce : \A j \in DOMAIN ce[i] : AtomHolds(ce[i][j], item)

\* The primary key of an item or key dictionary, when it is a complete,
\* non-empty key of the table.
IsKey(kd) ==
    /\ DOMAIN kd = {HashKeyName, RangeKeyName}
    /\ kd[HashKeyName] # ""
    /\ kd[RangeKeyName] # ""
    /\ kd \in Keys

KeyOf(item) == DictRestrict(item, {HashKeyName, RangeKeyName})

HasRow(k) == table[k] # EmptyItem

\* Outcome of put_item(Item=item, ConditionExpression=ce) with the store
\* behaving as fault says: "ok" (the item is stored), "conflict" (condition failed),
\* "client" (another ClientError: the item has no complete key),
\* "transport" (a failure that is not a ClientError).
PutOutcome(item, ce, fault) ==
    IF fault # "none" THEN fault
    ELSE IF ~IsKey(KeyOf(item)) THEN "client"
    ELSE IF ConditionHolds(ce, table[KeyOf(item)]) THEN "ok"
    ELSE "conflict"

TableAfterPut(item, outcome) ==
    IF outcome = "ok" THEN [table EXCEPT ![KeyOf(item)] = item] ELSE table

PutFaults == {"none", "transport"}

GetFaults == {"none", "client"}

(***************************************************************************)
(* Handles.  obj_dict is TocoObject._obj_dict (Object: the persisted part  *)
(* of __dict__), mirror the names blob mirrors as fields of _obj_dict,     *)
(* obj_updates the names recorded in _obj_updates, needs_reloaded the     *)
(* flag _needs_reloaded, cls the class of the object.  A class is its      *)
(* CLASS_NAME and, for a class derived from CFObject, the stack and        *)
(* logical names it is bound to, and compound, the registry                *)
(* cls._COMPOUND_ATTRS as the class sees it: name -> [save].               *)
(* loaded_is_bag tells what _obj_loaded is: the empty dict of __init__     *)
(* (FALSE), or the very object _obj_dict is (TRUE).                        *)
(***************************************************************************)
PlainClass(name) ==
    [name |-> name, cf |-> FALSE, stack |-> "", logical |-> "",
     compound |-> EmptyItem]

BoundClass(name, stack, logical) ==
    [name |-> name, cf |-> TRUE, stack |-> stack, logical |-> logical,
     compound |-> EmptyItem]

\* the modelled type
TheClass == PlainClass("m.T")

NoHandle ==
    [live |-> FALSE, obj_dict |-> EmptyItem, mirror |-> {}, in_db |-> FALSE,
     obj_updates |-> {}, needs_reloaded |-> FALSE, cls |-> TheClass,
     loaded_is_bag |-> FALSE]

\* The record of a call: what was called on which handle with which
\* switches, how it ended, and what the handle's version and the row were
\* before it; of a call that did not write, also the handle's in-database
\* flag and change record before it.
Idle ==
    [op |-> "none", h |-> "h1", force |-> FALSE, sim |-> TRUE, sie |-> TRUE,
     oiu |-> FALSE, outcome |-> "none", ver |-> 0, in_db |-> FALSE,
     updates |-> {}, row |-> EmptyItem]

\* Attribute values are strings, except the version counter and Object's
\* persisted in_db flag.
IsStrAttr(n) == n \notin {VERSION_KEY, IN_DB_ATTR}

HasVersion(o) == VERSION_KEY \in DOMAIN o.obj_dict

VersionOf(o) == o.obj_dict[VERSION_KEY]

BelowBound(o) == HasVersion(o) => VersionOf(o) < MaxVersion

(***************************************************************************)
(* Schema Provider.                                                        *)
(***************************************************************************)
HASH_AND_RANGE_KEYS == {HashKeyName, RangeKeyName}

GetRequiredAttributes == HASH_AND_RANGE_KEYS \cup REQUIRED_ATTRS

\* TocoObject._get_key_dict(dictionary): the key attributes present in the
\* dictionary, or in _obj_dict when the dictionary is empty.
GetKeyDict(o, dictionary) ==
    DictRestrict(IF dictionary # EmptyItem THEN dictionary ELSE o.obj_dict,
                 HASH_AND_RANGE_KEYS)

(***************************************************************************)
(* Store-safe conversion.                                                  *)
(***************************************************************************)
EnsureDdbSafe(d) ==
    [x \in DOMAIN d |->
        IF IsStrAttr(x) /\ d[x] = "" THEN FKEY_EMPTY_STRING ELSE d[x]]

LoadConstantFkeys(d) ==
    [x \in DOMAIN d |->
        IF IsStrAttr(x) /\ d[x] = FKEY_EMPTY_STRING THEN "" ELSE d[x]]

\* TocoObject.__getattribute__ on a present plain attribute: the constant
\* reference for the empty string reads as "".
ReadAttr(o, n) ==
    IF IsStrAttr(n) /\ o.obj_dict[n] = FKEY_EMPTY_STRING THEN "" ELSE o.obj_dict[n]

(***************************************************************************)
(* TocoObject: attribute writes.                                           *)
(***************************************************************************)
\* __setattr__(name, value) for a public name and a plain value
SetAttrObj(o, n, v) ==
    [o EXCEPT !.obj_dict = DictPut(@, n, v),
              !.mirror = @ \cup {n},
              !.obj_updates = IF n # VERSION_KEY THEN @ \cup {n} ELSE @]

RECURSIVE SetAll(_, _, _)
\* setattr for every name of S with its value in d
SetAll(o, d, S) ==
    IF S = {} THEN o
    ELSE LET n == CHOOSE x \in S : TRUE
         IN SetAll(SetAttrObj(o, n, d[n]), d, S \ {n})

\* _update_attrs(**kwargs)
UpdateAttrs(o, kwargs) == SetAll(o, LoadConstantFkeys(kwargs), DOMAIN kwargs)

\* _update_attrs_changed(**kwargs): only the names whose current reading
\* differs from the given value are assigned
UpdateAttrsChanged(o, kwargs) ==
    SetAll(o, kwargs,
           {k \in DOMAIN kwargs :
               k \notin DOMAIN o.obj_dict \/ ReadAttr(o, k) # kwargs[k]})

\* a faulty _clear_update_record that keeps the record
ClearUpdateRecordKept(o) == o

\* _clear_update_record(): self._obj_loaded = self._obj_dict;
\* self._obj_updates = {}
ClearUpdateRecord(o) == [o EXCEPT !.obj_updates = {}, !.loaded_is_bag = TRUE]

\* _obj_loaded, the snapshot of what was last persisted
ObjLoaded(o) == IF o.loaded_is_bag THEN o.obj_dict ELSE EmptyItem

(***************************************************************************)
(* TocoObject.__init__(_in_db=False, _attempt_load=True, **kwargs)         *)
(***************************************************************************)
\* the response of get_item for the constructor: a ClientError is swallowed
\* and reads as "no item"
InitDescription(kwargs, fault) ==
    LET key == GetKeyDict([obj_dict |-> [x \in {VERSION_KEY} |-> 0]], kwargs)
    IN IF fault # "none" \/ ~IsKey(key) THEN EmptyItem ELSE table[key]

TocoInit(kwargs, fault) ==
    LET o0 == SetAttrObj([NoHandle EXCEPT !.live = TRUE], VERSION_KEY, 0)
        item == InitDescription(kwargs, fault)
        o1 == IF item # EmptyItem
              THEN [ClearUpdateRecord(UpdateAttrs(o0, item)) EXCEPT !.in_db = TRUE]
              ELSE o0
        o2 == UpdateAttrsChanged(o1, kwargs)
    IN o2

(***************************************************************************)
(* TocoObject._save / _store                                               *)
(***************************************************************************)
\* the function registered for a compound attribute:
\* lambda o: "c:%s" % o.data (a missing attribute reads as None)
CompoundValue(o) ==
    "c:" \o (IF DataAttr \in DOMAIN o.obj_dict THEN ReadAttr(o, DataAttr) ELSE "None")

\* _get_dict_to_save(): a copy of the attribute bag, plus the compound
\* attributes registered with save=True whose name is not in the bag
GetDictToSave(o) ==
    LET compattrs == o.cls.compound
        added == {a \in DOMAIN compattrs :
                     a \notin DOMAIN o.obj_dict /\ compattrs[a].save}
    IN [x \in (DOMAIN o.obj_dict) \cup added |->
           IF x \in DOMAIN o.obj_dict THEN o.obj_dict[x] ELSE CompoundValue(o)]

\* a faulty _store that tests presence only: an empty required attribute
\* passes
MissingRequiredPresenceOnly(o) ==
    {r \in GetRequiredAttributes : r \notin DOMAIN GetDictToSave(o)}

\* _store: the required attributes missing or empty in the dictionary to save
MissingRequired(o) ==
    {r \in GetRequiredAttributes :
        r \notin DOMAIN GetDictToSave(o) \/ Falsy(GetDictToSave(o)[r])}

\* a faulty _save whose non-force update condition only asks for a version
\* attribute, whatever its value
SaveConditionUnversioned(force, sim, sie, old_version) ==
    LET create_condition == AttrNotExists(VERSION_KEY)
        update_condition == AttrExists(VERSION_KEY)
    IN IF force /\ sim /\ sie THEN NoCondition
       ELSE IF sim /\ sie THEN << <<create_condition>>, <<update_condition>> >>
       ELSE IF sie THEN << <<update_condition>> >>
       ELSE << <<create_condition>> >>

\* a faulty _save in which force drops the precondition in every mode
SaveConditionForceUnconditional(force, sim, sie, old_version) ==
    LET create_condition == AttrNotExists(VERSION_KEY)
        update_condition == AttrEq(VERSION_KEY, old_version)
    IN IF force THEN NoCondition
       ELSE IF sim /\ sie THEN << <<create_condition>>, <<update_condition>> >>
       ELSE IF sie THEN << <<update_condition>> >>
       ELSE << <<create_condition>> >>

\* a faulty _save whose upsert condition joins the two conditions with And
SaveConditionBothRequired(force, sim, sie, old_version) ==
    LET create_condition == AttrNotExists(VERSION_KEY)
        update_condition == IF force THEN AttrExists(VERSION_KEY)
                            ELSE AttrEq(VERSION_KEY, old_version)
    IN IF force /\ sim /\ sie THEN NoCondition
       ELSE IF sim /\ sie THEN << <<create_condition, update_condition>> >>
       ELSE IF sie THEN << <<update_condition>> >>
       ELSE << <<create_condition>> >>

\* a faulty _save that never looks at force
SaveConditionForceIgnored(force, sim, sie, old_version) ==
    LET create_condition == AttrNotExists(VERSION_KEY)
        update_condition == AttrEq(VERSION_KEY, old_version)
    IN IF sim /\ sie THEN << <<create_condition>>, <<update_condition>> >>
       ELSE IF sie THEN << <<update_condition>> >>
       ELSE << <<create_condition>> >>

\* _save: the write precondition by mode
SaveCondition(force, sim, sie, old_version) ==
    LET create_condition == AttrNotExists(VERSION_KEY)
        update_condition == IF force THEN AttrExists(VERSION_KEY)
                            ELSE AttrEq(VERSION_KEY, old_version)
    IN IF force /\ sim /\ sie THEN NoCondition
       ELSE IF sim /\ sie THEN << <<create_condition>>, <<update_condition>> >>
       ELSE IF sie THEN << <<update_condition>> >>
       ELSE << <<create_condition>> >>

\* the outcomes on which _save's "except ClientError" restores the version
CaughtBySave(outcome) == outcome \in {"conflict", "client"}

\* a faulty _save that leaves the version as it was
IncrementVersionDropped(o) == o

\* _save: self._obj_dict[VERSION_KEY] = old_version + 1
IncrementVersion(o) == SetAttrObj(o, VERSION_KEY, VersionOf(o) + 1)

\* _save, from the version increment on: [outcome, obj, item]
SaveAttempt(o, force, sim, sie, fault) ==
    LET old_version == VersionOf(o)
        ce == SaveCondition(force, sim, sie, old_version)
        o1 == IncrementVersion(o)
        item == EnsureDdbSafe(GetDictToSave(o1))
        put == PutOutcome(item, ce, fault)
    IN IF MissingRequired(o1) # {}
       THEN [outcome |-> "validation", obj |-> o1, item |-> item]
       ELSE IF put = "ok"
       THEN [outcome |-> "ok",
             obj |-> [ClearUpdateRecord(o1) EXCEPT !.in_db = TRUE],
             item |-> item]
       ELSE IF CaughtBySave(put)
       THEN [outcome |-> put, obj |-> SetAttrObj(o1, VERSION_KEY, old_version),
             item |-> item]
       ELSE [outcome |-> put, obj |-> o1, item |-> item]

\* a faulty _save that ignores only_if_updated
NothingToSaveNever(o, oiu) == FALSE

\* _save: only_if_updated and not self._obj_updates
NothingToSave(o, oiu) == oiu /\ o.obj_updates = {}

\* _save(force, save_if_missing, save_if_existing, only_if_updated)
SaveResult(o, force, sim, sie, oiu, fault) ==
    IF ~sim /\ ~sie
    THEN [outcome |-> "argerror", obj |-> o, item |-> EmptyItem]
    ELSE IF NothingToSave(o, oiu)
    THEN [outcome |-> "noop", obj |-> o, item |-> EmptyItem]
    ELSE IF ~HasVersion(o)
    THEN [outcome |-> "typeerror", obj |-> o, item |-> EmptyItem]
    ELSE SaveAttempt(o, force, sim, sie, fault)

(***************************************************************************)
(* TocoObject.__delattr__, _reload, _delete                                *)
(***************************************************************************)
\* __delattr__(name): [outcome, obj].  blob.__delitem__ removes the entry and
\* then deletes the mirrored field, which raises when the entry was never
\* mirrored (a bag filled by dict.update in _load).
DelAttrResult(o, n) ==
    IF n \in DOMAIN o.obj_dict
    THEN IF n \in o.mirror
         THEN [outcome |-> "ok",
               obj |-> [o EXCEPT !.obj_dict = DictDel(@, n),
                                 !.mirror = @ \ {n},
                                 !.obj_updates = @ \cup {n}]]
         ELSE [outcome |-> "attrerror",
               obj |-> [o EXCEPT !.obj_dict = DictDel(@, n)]]
    ELSE [outcome |-> "attrerror", obj |-> o]

\* _reload(): [outcome, obj].  _load reads the row under the handle's key;
\* the bag is replaced by what it returns, also when there is no row.
ReloadResult(o, fault) ==
    LET key == GetKeyDict(o, EmptyItem)
    IN IF fault # "none" \/ ~IsKey(key)
       THEN [outcome |-> "client", obj |-> o]
       ELSE [outcome |-> "ok",
             obj |-> [ClearUpdateRecord(o) EXCEPT !.obj_dict = table[key],
                                                  !.mirror = {},
                                                  !.in_db = TRUE]]

(***************************************************************************)
(* Object (src/toco/object.py)                                             *)
(***************************************************************************)
\* Object._get_dict(): the public instance attributes, in_db among them
ObjGetDict(o) == DictPut(o.obj_dict, IN_DB_ATTR, o.in_db)

\* Object.get_required_attributes()
ObjRequiredAttributes == REQUIRED_ATTRS

ObjMissingRequired(o) ==
    {r \in ObjRequiredAttributes :
        r \notin DOMAIN ObjGetDict(o) \/ Falsy(ObjGetDict(o)[r])}

\* Object._extract_hash_and_range(dictionary)
ExtractHashAndRange(o, dictionary) ==
    DictRestrict(IF dictionary # EmptyItem THEN dictionary ELSE o.obj_dict,
                 HASH_AND_RANGE_KEYS)

\* Object.__init__(**kwargs)
ObjInit(kwargs, fault) ==
    LET d0 == [x \in {VERSION_KEY} |-> 0]
        key == ExtractHashAndRange([obj_dict |-> d0], kwargs)
        item == IF fault # "none" \/ ~IsKey(key) THEN EmptyItem ELSE table[key]
        d1 == IF item # EmptyItem THEN DictUpdate(d0, DictDel(item, IN_DB_ATTR))
              ELSE d0
    IN [NoHandle EXCEPT !.live = TRUE,
                        !.obj_dict = DictUpdate(d1, kwargs),
                        !.in_db = (item # EmptyItem)]

\* Object._store(CE), entered with the handle as save/update/create left it:
\* [outcome, item]
ObjStore(o, ce, fault) ==
    IF ObjMissingRequired(o) # {}
    THEN [outcome |-> "validation", item |-> ObjGetDict(o)]
    ELSE [outcome |-> PutOutcome(ObjGetDict(o), ce, fault), item |-> ObjGetDict(o)]

\* a faulty Object.save that never sends a precondition
ObjSaveConditionForced(force, old_version) == NoCondition

\* the precondition built by Object.save
ObjSaveCondition(force, old_version) ==
    IF force THEN NoCondition
    ELSE << <<AttrEq(VERSION_KEY, old_version)>>, <<AttrNotExists(VERSION_KEY)>> >>

\* the precondition built by Object.update
ObjUpdateCondition(o, force, old_version) ==
    << <<AttrEq(HashKeyName, o.obj_dict[HashKeyName]),
         AttrEq(RangeKeyName, o.obj_dict[RangeKeyName])>>
       \o (IF force THEN <<>> ELSE <<AttrEq(VERSION_KEY, old_version)>>) >>

\* a faulty Object.create that sends no precondition
ObjCreateConditionNone(o) == NoCondition

\* the precondition built by Object.create
ObjCreateCondition(o) ==
    << <<AttrNe(HashKeyName, o.obj_dict[HashKeyName]),
         AttrNe(RangeKeyName, o.obj_dict[RangeKeyName])>> >>

\* save and update: the version is incremented and in_db set before the
\* write; "except ClientError" restores the version only
ObjVersionedWrite(o, ce, fault) ==
    LET old_version == VersionOf(o)
        o1 == [o EXCEPT !.obj_dict = DictPut(@, VERSION_KEY, old_version + 1),
                        !.in_db = TRUE]
        w == ObjStore(o1, ce, fault)
    IN IF w.outcome = "ok"
       THEN [outcome |-> "ok", obj |-> o1, item |-> w.item]
       ELSE IF CaughtBySave(w.outcome)
       THEN [outcome |-> w.outcome,
             obj |-> [o1 EXCEPT !.obj_dict = DictPut(@, VERSION_KEY, old_version)],
             item |-> w.item]
       ELSE [outcome |-> w.outcome, obj |-> o1, item |-> w.item]

\* Object.save(force)
ObjSaveResult(o, force, fault) ==
    ObjVersionedWrite(o, ObjSaveCondition(force, VersionOf(o)), fault)

\* Object.update(force): getattr of a key attribute the object lacks raises
ObjUpdateResult(o, force, fault) ==
    IF ~(HASH_AND_RANGE_KEYS \subseteq DOMAIN o.obj_dict)
    THEN [outcome |-> "attrerror", obj |-> o, item |-> EmptyItem]
    ELSE ObjVersionedWrite(o, ObjUpdateCondition(o, force, VersionOf(o)), fault)

\* Object.create(): no version increment
ObjCreateResult(o, fault) ==
    IF ~(HASH_AND_RANGE_KEYS \subseteq DOMAIN o.obj_dict)
    THEN [outcome |-> "attrerror", obj |-> o, item |-> EmptyItem]
    ELSE LET o1 == [o EXCEPT !.in_db = TRUE]
             w == ObjStore(o1, ObjCreateCondition(o), fault)
         IN [outcome |-> w.outcome, obj |-> o1, item |-> w.item]

\* Object.reload(): merges the stored item into __dict__ when there is one
ObjReloadResult(o, fault) ==
    LET key == ExtractHashAndRange(o, o.obj_dict)
    IN IF fault # "none" \/ ~IsKey(key)
       THEN [outcome |-> "client", obj |-> o]
       ELSE IF table[key] = EmptyItem
       THEN [outcome |-> "ok", obj |-> o]
       ELSE [outcome |-> "ok",
             obj |-> [o EXCEPT !.obj_dict = DictUpdate(@, DictDel(table[key], IN_DB_ATTR)),
                               !.in_db = table[key][IN_DB_ATTR]]]

\* the version a handle holds, -1 when its bag has none
LocalVersion(o) == IF HasVersion(o) THEN VersionOf(o) ELSE -1

Called(op, h, force, sim, sie, oiu, outcome) ==
    [op |-> op, h |-> h, force |-> force, sim |-> sim, sie |-> sie, oiu |-> oiu,
     outcome |-> outcome,
     ver |-> LocalVersion(handle[h]),
     in_db |-> IF outcome = "ok" THEN FALSE ELSE handle[h].in_db,
     updates |-> IF outcome = "ok" THEN {} ELSE handle[h].obj_updates,
     row |-> table[TheKey]]

\* a call whose record keeps nothing of the state before it
Noted(op, h, outcome) == [Idle EXCEPT !.op = op, !.h = h, !.outcome = outcome]

(***************************************************************************)
(* Inputs.                                                                 *)
(***************************************************************************)
\* constructor keyword arguments: the key alone, the key with attributes,
\* and a partial key
KwargsSet ==
    { [hk |-> "a", rk |-> "r"],
      [hk |-> "a", rk |-> "r", req |-> "v"],
      [hk |-> "a", rk |-> "r", req |-> "v", data |-> "v"],
      [hk |-> "a"] }

AttrValues == {"", "v"}

\* the inputs of the handles that race on one row: complete objects that
\* differ in their data attribute
PeerKwargs == { [hk |-> "a", rk |-> "r", req |-> "v", data |-> "v"] }

PeerValues == {"v", "w"}

(***************************************************************************)
(* Actions.                                                                *)
(***************************************************************************)
Init ==
    /\ impl \in {"TocoObject", "Object"}
    /\ table = [k \in Keys |-> EmptyItem]
    /\ handle = [h \in Handles |-> NoHandle]
    /\ last = Idle

\* the effect of a save-family call with result r on handle h
Commit(h, r, call) ==
    /\ handle' = [handle EXCEPT ![h] = r.obj]
    /\ table' = TableAfterPut(r.item, r.outcome)
    /\ last' = call
    /\ UNCHANGED impl

\* __init__ returns a handle in both cases: "ok" when get_item answered,
\* "swallowed" when it raised a ClientError, which "except ClientError"
\* turns into an empty description
ConstructOutcome(fault) == IF fault = "none" THEN "ok" ELSE "swallowed"

TocoConstruct(h, kwargs, fault) ==
    /\ impl = "TocoObject"
    /\ handle' = [handle EXCEPT ![h] = TocoInit(kwargs, fault)]
    /\ last' = [Noted("construct", h, ConstructOutcome(fault))
                    EXCEPT !.row = table[TheKey]]
    /\ UNCHANGED <<impl, table>>

TocoSetAttr(h, n, v) ==
    /\ impl = "TocoObject"
    /\ handle[h].live
    /\ handle' = [handle EXCEPT ![h] = SetAttrObj(@, n, v)]
    /\ last' = Idle
    /\ UNCHANGED <<impl, table>>

TocoDelAttr(h, n) ==
    /\ impl = "TocoObject"
    /\ handle[h].live
    /\ LET r == DelAttrResult(handle[h], n)
       IN /\ handle' = [handle EXCEPT ![h] = r.obj]
          /\ last' = Noted("del", h, r.outcome)
    /\ UNCHANGED <<impl, table>>

TocoSave(h, force, sim, sie, oiu, fault) ==
    /\ impl = "TocoObject"
    /\ handle[h].live
    /\ BelowBound(handle[h])
    /\ LET r == SaveResult(handle[h], force, sim, sie, oiu, fault)
       IN Commit(h, r, Called("save", h, force, sim, sie, oiu, r.outcome))

\* _update(force) = _save(force=force, save_if_existing=True, save_if_missing=False)
TocoUpdate(h, force, fault) ==
    /\ impl = "TocoObject"
    /\ handle[h].live
    /\ BelowBound(handle[h])
    /\ LET r == SaveResult(handle[h], force, FALSE, TRUE, FALSE, fault)
       IN Commit(h, r, Called("update", h, force, FALSE, TRUE, FALSE, r.outcome))

\* _create() passes force=force, a name bound nowhere: NameError before _save
TocoCreate(h) ==
    /\ impl = "TocoObject"
    /\ handle[h].live
    /\ last' = Called("create", h, FALSE, TRUE, FALSE, FALSE, "nameerror")
    /\ UNCHANGED <<impl, table, handle>>

\* _delete(CE=None)
TocoDelete(h) ==
    /\ impl = "TocoObject"
    /\ handle[h].live
    /\ LET key == GetKeyDict(handle[h], EmptyItem)
       IN IF IsKey(key)
          THEN /\ table' = [table EXCEPT ![key] = EmptyItem]
               /\ last' = Noted("delete", h, "ok")
          ELSE /\ last' = Noted("delete", h, "client")
               /\ UNCHANGED table
    /\ UNCHANGED <<impl, handle>>

TocoReload(h, fault) ==
    /\ impl = "TocoObject"
    /\ handle[h].live
    /\ LET r == ReloadResult(handle[h], fault)
       IN /\ handle' = [handle EXCEPT ![h] = r.obj]
          /\ last' = Noted("reload", h, r.outcome)
    /\ UNCHANGED <<impl, table>>

ObjConstruct(h, kwargs, fault) ==
    /\ impl = "Object"
    /\ handle' = [handle EXCEPT ![h] = ObjInit(kwargs, fault)]
    /\ last' = [Noted("construct", h, ConstructOutcome(fault))
                    EXCEPT !.row = table[TheKey]]
    /\ UNCHANGED <<impl, table>>

ObjSetAttr(h, n, v) ==
    /\ impl = "Object"
    /\ handle[h].live
    /\ handle' = [handle EXCEPT ![h].obj_dict = DictPut(@, n, v)]
    /\ last' = Idle
    /\ UNCHANGED <<impl, table>>

ObjSave(h, force, fault) ==
    /\ impl = "Object"
    /\ handle[h].live
    /\ BelowBound(handle[h])
    /\ LET r == ObjSaveResult(handle[h], force, fault)
       IN Commit(h, r, Called("save", h, force, TRUE, TRUE, FALSE, r.outcome))

ObjUpdate(h, force, fault) ==
    /\ impl = "Object"
    /\ handle[h].live
    /\ BelowBound(handle[h])
    /\ LET r == ObjUpdateResult(handle[h], force, fault)
       IN Commit(h, r, Called("update", h, force, FALSE, TRUE, FALSE, r.outcome))

ObjCreate(h, fault) ==
    /\ impl = "Object"
    /\ handle[h].live
    /\ LET r == ObjCreateResult(handle[h], fault)
       IN Commit(h, r, Called("create", h, FALSE, TRUE, FALSE, FALSE, r.outcome))

ObjReload(h, fault) ==
    /\ impl = "Object"
    /\ handle[h].live
    /\ LET r == ObjReloadResult(handle[h], fault)
       IN /\ handle' = [handle EXCEPT ![h] = r.obj]
          /\ last' = Noted("reload", h, r.outcome)
    /\ UNCHANGED <<impl, table>>

(***************************************************************************)
(* Spec: the handles of Handles race on one row; the store answers every   *)
(* call.                                                                   *)
(***************************************************************************)
Next ==
    \E h \in Handles :
        \/ \E kw \in PeerKwargs : TocoConstruct(h, kw, "none")
        \/ \E v \in PeerValues : TocoSetAttr(h, DataAttr, v)
        \/ \E force \in BOOLEAN : TocoSave(h, force, TRUE, TRUE, FALSE, "none")
        \/ TocoSave(h, FALSE, TRUE, FALSE, FALSE, "none")
        \/ \E force \in BOOLEAN : TocoUpdate(h, force, "none")
        \/ TocoCreate(h)
        \/ TocoDelete(h)
        \/ TocoReload(h, "none")
        \/ \E kw \in PeerKwargs : ObjConstruct(h, kw, "none")
        \/ \E v \in PeerValues : ObjSetAttr(h, DataAttr, v)
        \/ \E force \in BOOLEAN : ObjSave(h, force, "none")
        \/ \E force \in BOOLEAN : ObjUpdate(h, force, "none")
        \/ ObjCreate(h, "none")
        \/ ObjReload(h, "none")

Spec == Init /\ [][Next]_vars

(***************************************************************************)
(* SpecOne: one handle with every input: partial keys, missing and empty   *)
(* attributes, attribute deletion, and a store that may fail a call.       *)
(***************************************************************************)
TheHandle == "h1"

NextOne ==
    \/ \E kw \in KwargsSet, f \in GetFaults : TocoConstruct(TheHandle, kw, f)
    \/ \E n \in REQUIRED_ATTRS, v \in AttrValues : TocoSetAttr(TheHandle, n, v)
    \/ \E n \in REQUIRED_ATTRS : TocoDelAttr(TheHandle, n)
    \/ \E force, sim, sie, oiu \in BOOLEAN, f \in PutFaults :
           TocoSave(TheHandle, force, sim, sie, oiu, f)
    \/ \E force \in BOOLEAN, f \in PutFaults : TocoUpdate(TheHandle, force, f)
    \/ TocoCreate(TheHandle)
    \/ TocoDelete(TheHandle)
    \/ \E f \in GetFaults : TocoReload(TheHandle, f)
    \/ \E kw \in KwargsSet, f \in GetFaults : ObjConstruct(TheHandle, kw, f)
    \/ \E n \in REQUIRED_ATTRS, v \in AttrValues : ObjSetAttr(TheHandle, n, v)
    \/ \E force \in BOOLEAN, f \in PutFaults : ObjSave(TheHandle, force, f)
    \/ \E force \in BOOLEAN, f \in PutFaults : ObjUpdate(TheHandle, force, f)
    \/ \E f \in PutFaults : ObjCreate(TheHandle, f)
    \/ \E f \in GetFaults : ObjReload(TheHandle, f)

SpecOne == Init /\ [][NextOne]_vars

(***************************************************************************)
(* Properties.                                                             *)
(***************************************************************************)
SaveOps == {"save", "update", "create"}

\* the last call was a save of the family, in create-only / update-only mode
CreateOnly == last.op = "create" \/ (last.op = "save" /\ last.sim /\ ~last.sie)

UpdateOnly == last.op = "update" \/ (last.op = "save" /\ last.sie /\ ~last.sim)

\* a save whose precondition compares the stored version with the local one
VersionGuarded == last.op \in {"save", "update"} /\ ~last.force /\ last.sie

RowExisted == last.row # EmptyItem

StoredVersion == table[TheKey][VERSION_KEY]

\* the handle the last call was made on
Callee == handle[last.h]

\* a required attribute (hash key, range key, type-declared) is missing or
\* empty in the bag of the handle
LacksRequired(o) ==
    \E r \in {HashKeyName, RangeKeyName} \cup REQUIRED_ATTRS :
        r \notin DOMAIN o.obj_dict \/ o.obj_dict[r] = ""

\* C1: two handles hold the row at version N; once one of them has saved
\* (the stored version is N+1), a non-force save of the other, whose
\* precondition is version == N, ends in a conflict and the stored row,
\* attributes and version, is the row as it was.
ConflictAfterPeerSave ==
    (VersionGuarded /\ RowExisted /\ last.ver >= 0
        /\ last.row[VERSION_KEY] = last.ver + 1)
    => (last.outcome = "conflict" /\ table[TheKey] = last.row)

\* the second handle of the scenario has just been refused, the first one
\* holds the version it stored, and the rows the two would store differ
ConflictAfterPeerSaveWitness ==
    /\ impl = "TocoObject"
    /\ VersionGuarded /\ RowExisted /\ last.ver >= 1
    /\ last.row[VERSION_KEY] = last.ver + 1
    /\ last.outcome = "conflict"
    /\ \E g \in Handles \ {last.h} :
          /\ handle[g].in_db
          /\ LocalVersion(handle[g]) = last.ver + 1
          /\ handle[g].obj_dict[DataAttr] # Callee.obj_dict[DataAttr]

\* C2: a non-force upsert or update-only save from a handle whose local
\* version differs from the version stored under its key never succeeds and
\* never changes the stored version, whatever saves, force saves, deletes
\* and reloads other handles have done on the key.
StaleSaveNeverWrites ==
    (VersionGuarded /\ RowExisted /\ last.ver # last.row[VERSION_KEY])
    => (/\ last.outcome # "ok"
        /\ table[TheKey] # EmptyItem
        /\ StoredVersion = last.row[VERSION_KEY])

\* a refused save from a handle that is ahead of the store (the row was
\* overwritten by a force save, or deleted and created again, by a peer)
StaleSaveNeverWritesWitness ==
    /\ VersionGuarded /\ RowExisted
    /\ last.ver > last.row[VERSION_KEY]
    /\ last.outcome # "ok"

\* C3: the version stored in a row equals the number of saves that have
\* succeeded on its key since the row was created: the save that creates the
\* row stores version 1 and every later successful save (create-only,
\* update-only, upsert, force) stores the version stored before it plus 1.
StoredVersionCountsSaves ==
    (last.op \in SaveOps /\ last.outcome = "ok")
    => StoredVersion = IF RowExisted THEN last.row[VERSION_KEY] + 1 ELSE 1

\* C4: a handle constructed for a key with no row has local version 0, and
\* each successful save of a TocoObject leaves the local version at its value
\* before the save plus 1.
VersionStartsAtZeroAndStepsByOne ==
    impl = "TocoObject" =>
        /\ (last.op = "construct" /\ ~RowExisted) => LocalVersion(Callee) = 0
        /\ (last.op \in SaveOps /\ last.outcome = "ok")
              => LocalVersion(Callee) = last.ver + 1

\* the third consecutive successful save of a handle built for an absent key
VersionStartsAtZeroAndStepsByOneWitness ==
    /\ impl = "TocoObject"
    /\ last.op \in SaveOps /\ last.outcome = "ok"
    /\ last.ver = 2 /\ LocalVersion(Callee) = 3
    /\ StoredVersion = 3

\* C5: when the store rejects the precondition of a save, the caller gets the
\* conflict and the handle has the local version, the in-database flag and
\* the pending changes it had before the attempt.
ConflictRestoresHandle ==
    (last.op \in SaveOps /\ last.outcome = "conflict")
    => /\ LocalVersion(Callee) = last.ver
       /\ Callee.in_db = last.in_db
       /\ Callee.obj_updates = last.updates

\* C6: a save that fails, by validation or otherwise, leaves the local
\* version of the handle at its value before the attempt.
FailedSaveRestoresVersion ==
    (last.op \in SaveOps /\ last.outcome \notin {"ok", "noop"})
    => LocalVersion(Callee) = last.ver

\* the outcomes of a save that ended before _store was entered
EndedBeforeStore == {"argerror", "noop", "typeerror", "nameerror"}

CreateOnExistingFails ==
    (CreateOnly /\ RowExisted)
    => (last.outcome # "ok" /\ table[TheKey] = last.row)

\* a create-only save of a complete object refused by the store because the
\* row exists
CreateOnExistingFailsWitness ==
    /\ CreateOnly /\ RowExisted
    /\ ~LacksRequired(Callee)
    /\ last.outcome = "conflict"
    /\ table[TheKey] = last.row

\* C9: an update-only save, forced or not, for a key that has no row fails
\* and creates no row.
UpdateOnMissingFails ==
    (UpdateOnly /\ ~RowExisted)
    => (last.outcome # "ok" /\ table[TheKey] = EmptyItem)

\* a forced update-only save of a complete object refused by the store
\* because there is no row
UpdateOnMissingFailsWitness ==
    /\ impl = "TocoObject"
    /\ UpdateOnly /\ last.force /\ ~RowExisted
    /\ ~LacksRequired(Callee)
    /\ last.outcome = "conflict"
    /\ table[TheKey] = EmptyItem

\* C10: a create-only save of a valid object, from a handle that has not
\* saved yet and whose key has no row, succeeds: the row exists with the
\* attributes of the object and version 1, and the handle is in-database.
CreateOnAbsentSucceeds ==
    (CreateOnly /\ ~RowExisted /\ last.ver = 0 /\ ~LacksRequired(Callee))
    => /\ last.outcome = "ok"
       /\ table[TheKey] # EmptyItem
       /\ \A n \in DOMAIN Callee.obj_dict \ {VERSION_KEY} :
             n \in DOMAIN table[TheKey] /\ table[TheKey][n] = Callee.obj_dict[n]
       /\ VERSION_KEY \in DOMAIN table[TheKey] /\ StoredVersion = 1
       /\ Callee.in_db

\* C11: no false conflicts.  A non-force save of a valid object from a handle
\* whose local version equals the stored version succeeds: the upsert when
\* the row is absent (it creates the row) and when the row exists, the
\* update-only save when the row exists.  The row then holds version + 1.
NoFalseConflict ==
    (/\ VersionGuarded /\ ~last.oiu
     /\ last.ver >= 0 /\ ~LacksRequired(Callee)
     /\ \/ RowExisted /\ last.row[VERSION_KEY] = last.ver
        \/ ~RowExisted /\ last.sim)
    => /\ last.outcome = "ok"
       /\ table[TheKey] # EmptyItem
       /\ StoredVersion = last.ver + 1

\* an update-only save accepted on a row that a peer handle also holds
NoFalseConflictWitness ==
    /\ last.op = "update" /\ ~last.force
    /\ RowExisted /\ last.ver >= 1 /\ last.row[VERSION_KEY] = last.ver
    /\ last.outcome = "ok"
    /\ StoredVersion = last.ver + 1
    /\ \E g \in Handles \ {last.h} : handle[g].live /\ LocalVersion(handle[g]) = last.ver

\* the last call was a force upsert: save(force=True) in its default mode
ForceUpsert == last.op = "save" /\ last.force /\ last.sim /\ last.sie /\ ~last.oiu

\* the stored row holds exactly the attributes of the handle, with their
\* values (Object also stores its in_db attribute)
RowIsHandle(o) ==
    /\ table[TheKey] # EmptyItem
    /\ DOMAIN table[TheKey] \ {IN_DB_ATTR} = DOMAIN o.obj_dict
    /\ \A n \in DOMAIN o.obj_dict : table[TheKey][n] = o.obj_dict[n]

\* C12: a force upsert of a valid object carries no precondition: it
\* succeeds whatever version is stored and whether or not there is a row,
\* and the row becomes the attributes of the handle with the local version
\* of the handle before the save plus 1.
ForceUpsertReplaces ==
    (ForceUpsert /\ last.ver >= 0 /\ ~LacksRequired(Callee))
    => /\ last.outcome = "ok"
       /\ RowIsHandle(Callee)
       /\ StoredVersion = last.ver + 1

\* a force upsert from a handle two versions behind the store, over a row
\* whose data differ from the handle's
ForceUpsertReplacesWitness ==
    /\ impl = "TocoObject"
    /\ ForceUpsert /\ RowExisted
    /\ last.row[VERSION_KEY] = last.ver + 2
    /\ DataAttr \in DOMAIN Callee.obj_dict
    /\ last.row[DataAttr] # Callee.obj_dict[DataAttr]
    /\ last.outcome = "ok"
    /\ StoredVersion = last.ver + 1

\* C13: a save in only-if-updated mode on a handle with no pending change is
\* a no-op: it returns without a write, and the handle (version, attributes,
\* in-database flag, pending changes) and the table are as before the call.
OnlyIfUpdatedNoop ==
    [][(/\ last'.op = "save" /\ last'.oiu /\ (last'.sim \/ last'.sie)
        /\ handle[last'.h].obj_updates = {})
       => (/\ last'.outcome = "noop"
           /\ handle' = handle
           /\ table' = table)]_vars

\* the no-op on a handle that has saved: in-database, at version 1 or more
OnlyIfUpdatedNoopWitness ==
    /\ impl = "TocoObject"
    /\ last.op = "save" /\ last.oiu
    /\ last.outcome = "noop"
    /\ Callee.in_db /\ LocalVersion(Callee) >= 1
    /\ Callee.obj_updates = {}
    /\ table[TheKey] # EmptyItem

\* C14: after every successful save the handle is in-database and has no
\* pending change.
SavedHandleIsClean ==
    (last.op \in SaveOps /\ last.outcome = "ok")
    => (Callee.in_db /\ Callee.obj_updates = {})

\* the first save of a handle built for an absent key with constructor
\* attributes: it was not in-database and every attribute was pending
SavedHandleIsCleanWitness ==
    /\ impl = "TocoObject"
    /\ last.op = "save" /\ last.outcome = "ok"
    /\ ~RowExisted /\ last.ver = 0
    /\ Callee.in_db /\ Callee.obj_updates = {}
    /\ REQUIRED_ATTRS \subseteq DOMAIN Callee.obj_dict

\* C16: a store failure other than not-found during the load of the
\* constructor reaches the caller: it never ends in a constructed handle
\* that looks like a row that is not in the database (not in-database,
\* version 0).
LoadFailurePropagates ==
    (last.op = "construct" /\ last.outcome = "swallowed")
    => ~(Callee.live /\ ~Callee.in_db /\ LocalVersion(Callee) = 0)

\* the attributes a caller reads from handle o are exactly those of the
\* stored row (Object keeps its in_db flag outside the compared attributes)
ReadsAsRow(o) ==
    /\ DOMAIN o.obj_dict = DOMAIN table[TheKey] \ {IN_DB_ATTR}
    /\ \A n \in DOMAIN o.obj_dict :
           ReadAttr(o, n) = LoadConstantFkeys(table[TheKey])[n]

\* C18: after a reload of a handle whose row exists, the handle's
\* attributes are exactly those of the stored row (an attribute set locally
\* and absent from the row is gone), its version is the stored version and
\* it has no pending change.
ReloadReplacesState ==
    (last.op = "reload" /\ last.outcome = "ok" /\ table[TheKey] # EmptyItem)
    => /\ ReadsAsRow(Callee)
       /\ LocalVersion(Callee) = StoredVersion
       /\ Callee.obj_updates = {}

(***************************************************************************)
(* The foreign-key codec.  Python values are tagged records, so that       *)
(* values of different python types are different values: str, int,        *)
(* decimal.Decimal (what the table resource returns for a number           *)
(* attribute) and dict (a function from names to values).                  *)
(***************************************************************************)
PyStr(s) == [t |-> "str", s |-> s]
PyInt(i) == [t |-> "int", i |-> i]
PyDecimal(q) == [t |-> "Decimal", q |-> q]
PyDict(d) == [t |-> "dict", d |-> d]

Digits == "0123456789"

DigitOf(d) == SubSeq(Digits, d + 1, d + 1)

IsDigit(c) == \E d \in 0..9 : DigitOf(d) = c

DigitVal(c) == CHOOSE d \in 0..9 : DigitOf(d) = c

CharAt(s, i) == SubSeq(s, i, i)

Quote == "\""
Backslash == "\\"

\* json.dumps of a non-negative int
RECURSIVE JsonNat(_)
JsonNat(n) ==
    IF n < 10 THEN DigitOf(n) ELSE JsonNat(n \div 10) \o DigitOf(n % 10)

\* json.dumps of the characters of a str: quote and backslash are escaped
RECURSIVE JsonEscape(_)
JsonEscape(s) ==
    IF s = "" THEN ""
    ELSE LET c == CharAt(s, 1)
         IN (IF c = Quote \/ c = Backslash THEN Backslash \o c ELSE c)
                \o JsonEscape(SubSeq(s, 2, Len(s)))

\* the names a relation map can hold, in the order sort_keys=True gives them
SortedNames ==
    <<"_cf_logical_name", "_cf_stack_name", "class", "hk", "key", "rk">>

SortedKeys(d) == SelectSeq(SortedNames, LAMBDA n : n \in DOMAIN d)

\* json.dumps(v, sort_keys=True, separators=(',', ':')): the text, or the
\* TypeError json raises for a value it cannot serialise (a Decimal)
RECURSIVE JsonDumps(_), JsonDumpsItems(_, _)
JsonDumps(v) ==
    CASE v.t = "str" -> [ok |-> TRUE, s |-> Quote \o JsonEscape(v.s) \o Quote]
      [] v.t = "int" ->
            [ok |-> TRUE,
             s |-> IF v.i < 0 THEN "-" \o JsonNat(-v.i) ELSE JsonNat(v.i)]
      [] v.t = "dict" ->
            LET r == JsonDumpsItems(v.d, SortedKeys(v.d))
            IN [ok |-> r.ok, s |-> IF r.ok THEN "{" \o r.s \o "}" ELSE r.s]
      [] OTHER -> [ok |-> FALSE, s |-> "TypeError"]

JsonDumpsItems(d, names) ==
    IF names = <<>> THEN [ok |-> TRUE, s |-> ""]
    ELSE LET n == Head(names)
             v == JsonDumps(d[n])
             rest == JsonDumpsItems(d, Tail(names))
         IN IF ~v.ok THEN v
            ELSE IF ~rest.ok THEN rest
            ELSE [ok |-> TRUE,
                  s |-> Quote \o JsonEscape(n) \o Quote \o ":" \o v.s
                          \o (IF Tail(names) = <<>> THEN "" ELSE "," \o rest.s)]

\* json.loads: a parse of the text from position i gives the value read
\* and the position after it, or fails (ValueError)
JsonFail == [ok |-> FALSE, v |-> PyInt(0), i |-> 0]

JsonRead(v, i) == [ok |-> TRUE, v |-> v, i |-> i]

\* the characters of a string literal from position i (after the opening
\* quote) up to its closing quote
RECURSIVE JsonChars(_, _, _)
JsonChars(s, i, acc) ==
    IF i > Len(s) THEN JsonFail
    ELSE LET c == CharAt(s, i)
         IN IF c = Quote THEN JsonRead(PyStr(acc), i + 1)
            ELSE IF c = Backslash
            THEN IF i < Len(s) /\ CharAt(s, i + 1) \in {Quote, Backslash}
                 THEN JsonChars(s, i + 2, acc \o CharAt(s, i + 1))
                 ELSE JsonFail
            ELSE JsonChars(s, i + 1, acc \o c)

RECURSIVE JsonDigits(_, _, _)
JsonDigits(s, i, acc) ==
    IF i <= Len(s) /\ IsDigit(CharAt(s, i))
    THEN JsonDigits(s, i + 1, 10 * acc + DigitVal(CharAt(s, i)))
    ELSE JsonRead(PyInt(acc), i)

\* the position of the first character from position i that is not a space
RECURSIVE SkipSpaces(_, _)
SkipSpaces(s, i) ==
    IF i <= Len(s) /\ CharAt(s, i) = " " THEN SkipSpaces(s, i + 1) ELSE i

\* the value that starts at position i, after any spaces
RECURSIVE JsonValue(_, _), JsonMembers(_, _, _)
JsonValue(s, i0) ==
    LET i == SkipSpaces(s, i0)
    IN IF i > Len(s) THEN JsonFail
       ELSE LET c == CharAt(s, i)
            IN IF c = Quote THEN JsonChars(s, i + 1, "")
               ELSE IF IsDigit(c) THEN JsonDigits(s, i, 0)
               ELSE IF c = "-"
               THEN IF i < Len(s) /\ IsDigit(CharAt(s, i + 1))
                    THEN LET r == JsonDigits(s, i + 1, 0)
                         IN JsonRead(PyInt(-r.v.i), r.i)
                    ELSE JsonFail
               ELSE IF c = "{"
               THEN IF SkipSpaces(s, i + 1) <= Len(s)
                       /\ CharAt(s, SkipSpaces(s, i + 1)) = "}"
                    THEN JsonRead(PyDict(<< >>), SkipSpaces(s, i + 1) + 1)
                    ELSE JsonMembers(s, i + 1, << >>)
               ELSE JsonFail

\* the members "name":value of an object from position i, up to its "}";
\* spaces may stand around names, values and separators
JsonMembers(s, i0, d) ==
    LET i == SkipSpaces(s, i0)
    IN IF i > Len(s) \/ CharAt(s, i) # Quote THEN JsonFail
       ELSE LET n == JsonChars(s, i + 1, "")
                c == SkipSpaces(s, n.i)
            IN IF ~n.ok \/ c > Len(s) \/ CharAt(s, c) # ":" THEN JsonFail
               ELSE LET v == JsonValue(s, c + 1)
                        j == SkipSpaces(s, v.i)
                    IN IF ~v.ok \/ j > Len(s) THEN JsonFail
                       ELSE LET e == DictPut(d, n.v.s, v.v)
                            IN IF CharAt(s, j) = "}"
                               THEN JsonRead(PyDict(e), j + 1)
                               ELSE IF CharAt(s, j) = ","
                               THEN JsonMembers(s, j + 1, e)
                               ELSE JsonFail

\* json.loads(s): the whole text must be one value
JsonLoads(s) ==
    LET r == JsonValue(s, 1)
    IN IF r.ok /\ SkipSpaces(s, r.i) = Len(s) + 1 THEN r ELSE JsonFail

(***************************************************************************)
(* Page tokens: json.dumps of the continuation key, url-safe base64, the   *)
(* padding stripped; and back.  Texts are ASCII.                           *)
(***************************************************************************)
\* the printable ASCII characters from code 32 to code 95, and from code
\* 97 to code 126
AsciiLow ==
    " !\"#$%&'()*+,-./0123456789:;<=>?@ABCDEFGHIJKLMNOPQRSTUVWXYZ[\\]^_"

AsciiHigh == "abcdefghijklmnopqrstuvwxyz{|}~"

IndexIn(s, c) == CHOOSE i \in 1..Len(s) : CharAt(s, i) = c

Ord(c) ==
    IF \E i \in 1..Len(AsciiLow) : CharAt(AsciiLow, i) = c
    THEN 31 + IndexIn(AsciiLow, c)
    ELSE 96 + IndexIn(AsciiHigh, c)

Chr(n) == IF n <= 95 THEN CharAt(AsciiLow, n - 31) ELSE CharAt(AsciiHigh, n - 96)

B64Alphabet == "ABCDEFGHIJKLMNOPQRSTUVWXYZabcdefghijklmnopqrstuvwxyz0123456789-_"

B64Char(n) == CharAt(B64Alphabet, n + 1)

B64Val(c) == IndexIn(B64Alphabet, c) - 1

\* json.dumps(v) with the default separators ', ' and ': ', or the
\* TypeError for a value json cannot serialise
RECURSIVE JsonDumpsDefault(_), JsonDumpsDefaultItems(_, _)
JsonDumpsDefault(v) ==
    IF v.t = "dict"
    THEN LET r == JsonDumpsDefaultItems(v.d, SortedKeys(v.d))
         IN [ok |-> r.ok, s |-> IF r.ok THEN "{" \o r.s \o "}" ELSE r.s]
    ELSE JsonDumps(v)

JsonDumpsDefaultItems(d, names) ==
    IF names = <<>> THEN [ok |-> TRUE, s |-> ""]
    ELSE LET n == Head(names)
             v == JsonDumpsDefault(d[n])
             rest == JsonDumpsDefaultItems(d, Tail(names))
         IN IF ~v.ok THEN v
            ELSE IF ~rest.ok THEN rest
            ELSE [ok |-> TRUE,
                  s |-> Quote \o JsonEscape(n) \o Quote \o ": " \o v.s
                          \o (IF Tail(names) = <<>> THEN "" ELSE ", " \o rest.s)]

\* base64.urlsafe_b64encode of an ASCII text: three bytes give four
\* characters, a last group of one or two bytes is padded with "="
RECURSIVE UrlsafeB64Encode(_)
UrlsafeB64Encode(s) ==
    IF Len(s) = 0 THEN ""
    ELSE LET a == Ord(CharAt(s, 1))
             b == IF Len(s) >= 2 THEN Ord(CharAt(s, 2)) ELSE 0
             c == IF Len(s) >= 3 THEN Ord(CharAt(s, 3)) ELSE 0
             c1 == B64Char(a \div 4)
             c2 == B64Char((a % 4) * 16 + b \div 16)
             c3 == B64Char((b % 16) * 4 + c \div 64)
             c4 == B64Char(c % 64)
         IN IF Len(s) = 1 THEN c1 \o c2 \o "=="
            ELSE IF Len(s) = 2 THEN c1 \o c2 \o c3 \o "="
            ELSE c1 \o c2 \o c3 \o c4 \o UrlsafeB64Encode(SubSeq(s, 4, Len(s)))

\* key.replace("=", "")
RECURSIVE StripPadding(_)
StripPadding(s) ==
    IF Len(s) = 0 THEN ""
    ELSE (IF CharAt(s, 1) = "=" THEN "" ELSE CharAt(s, 1))
             \o StripPadding(SubSeq(s, 2, Len(s)))

\* "=" * n
RECURSIVE Padding(_)
Padding(n) == IF n = 0 THEN "" ELSE "=" \o Padding(n - 1)

\* the number of data characters of a padded text: those before the first "="
RECURSIVE DataLen(_, _)
DataLen(s, i) ==
    IF i <= Len(s) /\ CharAt(s, i) # "=" THEN DataLen(s, i + 1) ELSE i - 1

\* the bytes of the data characters of a base64 text
RECURSIVE B64Bytes(_)
B64Bytes(s) ==
    IF Len(s) < 2 THEN ""
    ELSE LET v1 == B64Val(CharAt(s, 1))
             v2 == B64Val(CharAt(s, 2))
             v3 == IF Len(s) >= 3 THEN B64Val(CharAt(s, 3)) ELSE 0
             v4 == IF Len(s) >= 4 THEN B64Val(CharAt(s, 4)) ELSE 0
             b1 == Chr(v1 * 4 + v2 \div 16)
             b2 == Chr((v2 % 16) * 16 + v3 \div 4)
             b3 == Chr((v3 % 4) * 64 + v4)
         IN IF Len(s) = 2 THEN b1
            ELSE IF Len(s) = 3 THEN b1 \o b2
            ELSE b1 \o b2 \o b3 \o B64Bytes(SubSeq(s, 5, Len(s)))

\* base64.urlsafe_b64decode of data characters followed by "=" characters:
\* the decoder wants at least the padding that completes the last group of
\* four (binascii.Error otherwise) and ignores any further "="
UrlsafeB64Decode(s) ==
    LET n == DataLen(s, 1)
        pads == Len(s) - n
    IN IF n % 4 = 1 \/ (n % 4 = 2 /\ pads < 2) \/ (n % 4 = 3 /\ pads < 1)
       THEN [ok |-> FALSE, s |-> "binascii.Error"]
       ELSE [ok |-> TRUE, s |-> B64Bytes(SubSeq(s, 1, n))]

\* _encode_nexttoken(key)
EncodeNextToken(key) ==
    LET j == JsonDumpsDefault(key)
    IN IF ~j.ok THEN j
       ELSE [ok |-> TRUE, s |-> StripPadding(UrlsafeB64Encode(j.s))]

\* _decode_nexttoken(key)
DecodeNextToken(key) ==
    LET padded == key \o Padding((16 - (Len(key) % 16)) % 16)
        b == UrlsafeB64Decode(padded)
    IN IF ~b.ok THEN JsonFail ELSE JsonLoads(b.s)

(***************************************************************************)
(* Relation maps and reference strings.                                   *)
(***************************************************************************)
\* BaseTocoObject._get_class_relation_map / Object._get_relation_map
BaseClassRelationMap(cls, o) ==
    [class |-> PyStr(cls.name),
     key |-> PyDict(IF impl = "TocoObject" THEN GetKeyDict(o, EmptyItem)
                    ELSE ExtractHashAndRange(o, EmptyItem))]

\* CFObject._get_class_relation_map / CFObject._get_relation_map
CFClassRelationMap(cls, o) ==
    [class |-> PyStr(cls.name),
     _cf_stack_name |-> PyStr(cls.stack),
     _cf_logical_name |-> PyStr(cls.logical)]

\* _get_relation_map: the contributions of the classes of the object, the
\* bases first, merged by dict.update
GetRelationMap(cls, o) ==
    IF cls.cf
    THEN DictUpdate(BaseClassRelationMap(cls, o), CFClassRelationMap(cls, o))
    ELSE BaseClassRelationMap(cls, o)

\* _foreign_key: the reference string of the object, or the TypeError of
\* json.dumps
ForeignKey(cls, o) ==
    LET r == JsonDumps(PyDict(GetRelationMap(cls, o)))
    IN [ok |-> r.ok, s |-> IF r.ok THEN FKEY_PREFIX \o r.s ELSE r.s]

StartsWith(s, p) == Len(s) >= Len(p) /\ SubSeq(s, 1, Len(p)) = p

\* fkey[len(FKEY_PREFIX):]
FkeyPayload(fkey) == SubSeq(fkey, Len(FKEY_PREFIX) + 1, Len(fkey))

CONSTANT_FKEYS == {FKEY_EMPTY_STRING}

\* is_foreign_key of a string: any failure of the parse or of the lookups
\* of 'class' and 'key' answers False
IsForeignKey(fkey) ==
    /\ StartsWith(fkey, FKEY_PREFIX)
    /\ \/ impl = "TocoObject" /\ fkey \in CONSTANT_FKEYS
       \/ LET r == JsonLoads(FkeyPayload(fkey))
          IN /\ r.ok
             /\ r.v.t = "dict"
             /\ {"class", "key"} \subseteq DOMAIN r.v.d

\* the map load_from_fkey reads from a reference string: obj of
\* "obj = json.loads(fkey[len(FKEY_PREFIX):])"
FkeyMap(fkey) == JsonLoads(FkeyPayload(fkey)).v.d

(***************************************************************************)
(* SpecCodec: the reference codec as a function of the object.  A          *)
(* behaviour starts from one object (its class and the key attributes of   *)
(* its bag), encodes its relation map and decodes the string again.  Key   *)
(* values are a str, a str holding the characters json escapes, an int     *)
(* given to the constructor, and the Decimal a number key is once the      *)
(* object was loaded from the table; the range key is optional.            *)
(***************************************************************************)
CodecClasses ==
    { PlainClass("m.T"), PlainClass("pkg.mod.T"),
      BoundClass("m.L", "stack", "Table") }

CodecHashValues == { PyStr("a"), PyStr("a\"\\b"), PyInt(5), PyDecimal(5) }

CodecRangeValues == { PyStr("r"), PyStr(""), PyInt(70), PyDecimal(70) }

CodecKeys ==
    { [hk |-> v] : v \in CodecHashValues }
        \cup { [hk |-> v, rk |-> w] : v \in CodecHashValues, w \in CodecRangeValues }

CodecObject(cls, key) ==
    [NoHandle EXCEPT !.live = TRUE, !.obj_dict = key, !.cls = cls]

\* the record of a codec call: the string produced or read, and the map read
CodecIdle == [op |-> "none", ok |-> TRUE, fkey |-> "", map |-> << >>]

InitCodec ==
    /\ impl \in {"TocoObject", "Object"}
    /\ table = [k \in Keys |-> EmptyItem]
    /\ \E cls \in CodecClasses, key \in CodecKeys :
           handle = [h \in Handles |->
                        IF h = TheHandle THEN CodecObject(cls, key) ELSE NoHandle]
    /\ last = CodecIdle

\* o._foreign_key()
CodecEncode ==
    /\ last.op = "none"
    /\ LET o == handle[TheHandle]
           r == ForeignKey(o.cls, o)
       IN last' = [op |-> "encode", ok |-> r.ok, fkey |-> r.s, map |-> << >>]
    /\ UNCHANGED <<impl, table, handle>>

\* the decoding load_from_fkey does of the string: None when
\* is_foreign_key rejects it, else the map json.loads reads
CodecDecode ==
    /\ last.op = "encode"
    /\ last.ok
    /\ last' = [op |-> "decode",
                ok |-> IsForeignKey(last.fkey),
                fkey |-> last.fkey,
                map |-> IF IsForeignKey(last.fkey) THEN FkeyMap(last.fkey)
                        ELSE << >>]
    /\ UNCHANGED <<impl, table, handle>>

\* the strings an attribute may hold that resemble the reference of the
\* object: the reference cut short, without its prefix, without 'class',
\* without 'key', with a key that is a number or a str, and a prefix
\* followed by text that is no json
StoredForms ==
    {"cut", "noprefix", "noclass", "nokey", "keynumber", "keystr", "notjson"}

StoredValue(form, fkey, m) ==
    CASE form = "cut" -> SubSeq(fkey, 1, Len(fkey) - 1)
      [] form = "noprefix" -> FkeyPayload(fkey)
      [] form = "noclass" -> FKEY_PREFIX \o JsonDumps(PyDict(DictDel(m, "class"))).s
      [] form = "nokey" -> FKEY_PREFIX \o JsonDumps(PyDict(DictDel(m, "key"))).s
      [] form = "keynumber" ->
            FKEY_PREFIX \o JsonDumps(PyDict(DictPut(m, "key", PyInt(5)))).s
      [] form = "keystr" ->
            FKEY_PREFIX \o JsonDumps(PyDict(DictPut(m, "key", PyStr("k")))).s
      [] form = "notjson" -> FKEY_PREFIX \o "x"

\* how __getattribute__ ends on a present attribute holding the string v:
\* "plain" (v is returned as it is), "constant" (the value of a constant
\* reference), "object" (the stub load_from_fkey builds), or "raises":
\* is_foreign_key accepts any parsed map with 'class' and 'key', and
\* load_from_fkey then runs obj.update(key), which raises for a key that is
\* no map
ReadOutcome(v) ==
    IF ~IsForeignKey(v) THEN "plain"
    ELSE IF v \in CONSTANT_FKEYS THEN "constant"
    ELSE IF FkeyMap(v)["key"].t # "dict" THEN "raises"
    ELSE "object"

\* an attribute of a TocoObject holds a string that resembles the reference
CodecStore(form) ==
    /\ impl = "TocoObject"
    /\ last.op = "encode"
    /\ last.ok
    /\ last' = [op |-> "stored", ok |-> TRUE,
                fkey |-> StoredValue(form, last.fkey,
                             GetRelationMap(handle[TheHandle].cls, handle[TheHandle])),
                map |-> << >>, form |-> form]
    /\ UNCHANGED <<impl, table, handle>>

\* the attribute is read
CodecRead ==
    /\ last.op = "stored"
    /\ last' = [op |-> "read", ok |-> ReadOutcome(last.fkey) # "raises",
                fkey |-> last.fkey, map |-> << >>, form |-> last.form,
                outcome |-> ReadOutcome(last.fkey)]
    /\ UNCHANGED <<impl, table, handle>>

\* continuation keys (LastEvaluatedKey) of a table or index: a hash key
\* and possibly a range key, each a str or, for a number attribute, the
\* Decimal the table resource returns
TokenHashValues ==
    { PyStr("a"), PyStr("ab"), PyStr("abc"), PyStr("abcd"), PyDecimal(5) }

TokenRangeValues == { PyStr("r"), PyDecimal(70) }

TokenKeys ==
    { PyDict([hk |-> x]) : x \in TokenHashValues }
        \cup { PyDict([hk |-> x, rk |-> y]) : x \in TokenHashValues, y \in TokenRangeValues }

\* cls._encode_nexttoken(key)
TokenEncode(key) ==
    /\ impl = "TocoObject"
    /\ last.op = "none"
    /\ LET r == EncodeNextToken(key)
       IN last' = [op |-> "token", ok |-> r.ok, token |-> r.s, key |-> key]
    /\ UNCHANGED <<impl, table, handle>>

\* cls._decode_nexttoken(token) of the token just made
TokenDecode ==
    /\ last.op = "token"
    /\ last.ok
    /\ LET r == DecodeNextToken(last.token)
       IN last' = [op |-> "untoken", ok |-> r.ok, token |-> last.token,
                   key |-> last.key, decoded |-> r.v]
    /\ UNCHANGED <<impl, table, handle>>

NextCodec ==
    \/ CodecEncode
    \/ CodecDecode
    \/ \E form \in StoredForms : CodecStore(form)
    \/ CodecRead
    \/ \E key \in TokenKeys : TokenEncode(key)
    \/ TokenDecode

SpecCodec == InitCodec /\ [][NextCodec]_vars

\* the relation map of the object of a codec behaviour
CodecRelationMap == GetRelationMap(handle[TheHandle].cls, handle[TheHandle])

\* C20: for every object, encoding its relation map gives a reference
\* string, and decoding that string gives exactly the relation map: the
\* same type name, the same key map, the same binding metadata.
ReferenceRoundTrips ==
    /\ last.op = "encode" => last.ok
    /\ last.op = "decode" => (last.ok /\ last.map = CodecRelationMap)

(***************************************************************************)
(* References between objects.  An attribute that holds an object holds    *)
(* its reference string; reading it builds a stub of the referent.  The    *)
(* attribute values of these behaviours are strings, so a key dictionary   *)
(* enters json as str values and leaves it as str values.                  *)
(***************************************************************************)
RefAttr == "ref"

PyNone == [t |-> "NoneType"]

\* a bag of string values as python values, and back
AsPython(d) == [n \in DOMAIN d |-> PyStr(d[n])]

AsStrings(d) == [n \in DOMAIN d |-> d[n].s]

\* value._foreign_key() of a live object
ForeignKeyOf(o) ==
    ForeignKey(o.cls, [o EXCEPT !.obj_dict =
                           AsPython(DictRestrict(@, HASH_AND_RANGE_KEYS))])

\* get_class(clazzname): the classes of these behaviours are importable
GetClass(clazzname) == PlainClass(clazzname)

\* the keyword arguments load_from_fkey hands to _from_fkey: the map
\* without 'class' and 'key', updated with the key
FkeyKwargs(fkey) ==
    LET obj == FkeyMap(fkey)
    IN AsStrings(DictUpdate(DictDel(DictDel(obj, "key"), "class"), obj["key"].d))

\* the number of get_item calls of __init__
InitFetches(attempt_load) == IF attempt_load THEN 1 ELSE 0

\* __init__(_attempt_load=attempt_load, **kwargs)
TocoInitFrom(kwargs, attempt_load) ==
    IF attempt_load THEN TocoInit(kwargs, "none")
    ELSE UpdateAttrsChanged(
             SetAttrObj([NoHandle EXCEPT !.live = TRUE], VERSION_KEY, 0), kwargs)

\* a faulty _from_fkey that leaves the stub marked as loaded
FromFkeyUnmarked(cls, kwargs, attempt_load) ==
    [TocoInitFrom(kwargs, attempt_load) EXCEPT !.cls = cls]

\* BaseTocoObject._from_fkey(**kwargs): obj = cls(**kwargs);
\* obj._needs_reloaded = True
FromFkey(cls, kwargs, attempt_load) ==
    [TocoInitFrom(kwargs, attempt_load) EXCEPT !.cls = cls,
                                               !.needs_reloaded = TRUE]

\* load_from_fkey(fkey, _attempt_load=attempt_load) of a reference string
\* that names an object
LoadFromFkey(fkey, attempt_load) ==
    FromFkey(GetClass(FkeyMap(fkey)["class"].s), FkeyKwargs(fkey), attempt_load)

\* the value names an object: a reference string that is no constant
NamesObject(v) == IsForeignKey(v) /\ v \notin CONSTANT_FKEYS

\* __setattr__(name, value) for a TocoObject value: the reference string of
\* the value is stored
SetAttrRef(o, n, value) == SetAttrObj(o, n, ForeignKeyOf(value).s)

\* the reload __getattribute__ makes before it reads a public name of an
\* object that needs it, and the number of get_item calls it makes
Reloaded(o) ==
    IF o.needs_reloaded
    THEN [ReloadResult(o, "none").obj EXCEPT !.needs_reloaded = FALSE]
    ELSE o

ReloadFetches(o) == IF o.needs_reloaded THEN 1 ELSE 0

\* the value __getattribute__ returns for a public name of a reloaded
\* object, when it is not an object: the attribute, or None on a miss
PlainValue(o, n) ==
    IF n \in DOMAIN o.obj_dict THEN PyStr(ReadAttr(o, n)) ELSE PyNone

\* "getattr(self, k) != kwargs[k]" for an object kwargs[k]: getattr gives
\* None or a stub it has just built, never the object given, and objects
\* of the layer compare by identity
ReadsSameObject(o, n, value) == FALSE

\* _update_attrs_changed(**kwargs) for one object-valued keyword argument
UpdateAttrsChangedRef(o, n, value) ==
    IF ReadsSameObject(o, n, value) THEN o ELSE SetAttrRef(o, n, value)

\* the get_item calls of the read "getattr(self, n)" of
\* _update_attrs_changed: a stored reference is resolved to a stub
ReadFetches(o, n) ==
    IF n \in DOMAIN o.obj_dict /\ NamesObject(o.obj_dict[n])
    THEN InitFetches(TRUE) ELSE 0

(***************************************************************************)
(* SpecRef: object h1 refers to object h2 through its attribute ref.       *)
(* The two are constructed, assigned, saved, deleted and loaded again;     *)
(* reading ref builds the stub, and the stub is read in turn.              *)
(***************************************************************************)
Referrer == "h1"
Referent == "h2"
Stub == "stub"

RefHandles == Handles \cup {Stub}

ReferrerKwargs ==
    { [hk |-> "a", rk |-> "r"],
      [hk |-> "a", rk |-> "r", req |-> "v"],
      [hk |-> "a", rk |-> "r", req |-> "w"] }

ReferentKwargs == { [hk |-> "b", rk |-> "r", req |-> "v"] }

StubReads == {HashKeyName, "req"}

RefPlainValues == {"v"}

\* a save of these behaviours is attempted only below this local version
MaxRefVersion == 2

PyObject(h) == [t |-> "object", h |-> h]

\* the record of a call of these behaviours: the call, the keyword
\* arguments of a construction and whether ref was given as an object, the
\* number of get_item calls it made, whether the handle needed a reload
\* before it, and the value it returned
RefCall(op, h, kwargs, override, fetches, value) ==
    [op |-> op, h |-> h, outcome |-> "ok", kwargs |-> kwargs,
     override |-> override, fetches |-> fetches,
     reloading |-> handle[h].needs_reloaded, value |-> value,
     row |-> table[TheKey]]

InitRef ==
    /\ impl = "TocoObject"
    /\ table = [k \in Keys |-> EmptyItem]
    /\ handle = [h \in RefHandles |-> NoHandle]
    /\ last = [op |-> "none", h |-> Referrer, outcome |-> "none"]

\* h1 = T(**kwargs) or T(ref=h2, **kwargs)
RefConstruct(kwargs, override) ==
    /\ override => handle[Referent].live
    /\ LET o == TocoInit(kwargs, "none")
       IN /\ handle' = [handle EXCEPT ![Referrer] =
                 IF override
                 THEN UpdateAttrsChangedRef(o, RefAttr, handle[Referent])
                 ELSE o]
          /\ last' = RefCall("construct", Referrer, kwargs, override,
                             InitFetches(TRUE)
                                 + (IF override THEN ReadFetches(o, RefAttr) ELSE 0),
                             PyObject(Referrer))
    /\ UNCHANGED <<impl, table>>

\* h2 = T(**kwargs)
RefConstructReferent(kwargs) ==
    /\ handle' = [handle EXCEPT ![Referent] = TocoInit(kwargs, "none")]
    /\ last' = RefCall("construct", Referent, kwargs, FALSE, InitFetches(TRUE),
                       PyObject(Referent))
    /\ UNCHANGED <<impl, table>>

\* h1.ref = h2
RefAssign ==
    /\ handle[Referrer].live
    /\ handle[Referent].live
    /\ handle' = [handle EXCEPT ![Referrer] = SetAttrRef(@, RefAttr, handle[Referent])]
    /\ last' = RefCall("assign", Referrer, << >>, TRUE, 0, PyNone)
    /\ UNCHANGED <<impl, table>>

\* h1.ref = v for a plain string
RefAssignPlain(v) ==
    /\ handle[Referrer].live
    /\ handle' = [handle EXCEPT ![Referrer] = SetAttrObj(@, RefAttr, v)]
    /\ last' = RefCall("assign", Referrer, << >>, FALSE, 0, PyNone)
    /\ UNCHANGED <<impl, table>>

\* h._save()
RefSave(h) ==
    /\ LocalVersion(handle[h]) < MaxRefVersion
    /\ TocoSave(h, FALSE, TRUE, TRUE, FALSE, "none")

\* h1.ref: a stored reference is resolved by load_from_fkey to a stub
RefRead ==
    /\ handle[Referrer].live
    /\ LET o == handle[Referrer]
       IN IF RefAttr \in DOMAIN o.obj_dict /\ NamesObject(o.obj_dict[RefAttr])
          THEN /\ handle' = [handle EXCEPT ![Stub] =
                                 LoadFromFkey(o.obj_dict[RefAttr], TRUE)]
               /\ last' = RefCall("read", Referrer, << >>, FALSE,
                                  ReloadFetches(o) + InitFetches(TRUE),
                                  PyObject(Stub))
          ELSE /\ last' = RefCall("read", Referrer, << >>, FALSE,
                                  ReloadFetches(o), PlainValue(o, RefAttr))
               /\ UNCHANGED handle
    /\ UNCHANGED <<impl, table>>

\* T._json_deserialize(fkey) of the reference h1 holds
RefDeserialize ==
    /\ handle[Referrer].live
    /\ RefAttr \in DOMAIN handle[Referrer].obj_dict
    /\ NamesObject(handle[Referrer].obj_dict[RefAttr])
    /\ handle' = [handle EXCEPT ![Stub] =
                      LoadFromFkey(handle[Referrer].obj_dict[RefAttr], FALSE)]
    /\ last' = RefCall("deserialize", Referrer, << >>, FALSE,
                       InitFetches(FALSE), PyObject(Stub))
    /\ UNCHANGED <<impl, table>>

\* stub.n for a public name n: the first read reloads the stub
StubRead(n) ==
    /\ handle[Stub].live
    /\ LET o == Reloaded(handle[Stub])
       IN /\ handle' = [handle EXCEPT ![Stub] = o]
          /\ last' = RefCall("access", Stub, << >>, FALSE,
                             ReloadFetches(handle[Stub]), PlainValue(o, n))
    /\ UNCHANGED <<impl, table>>

\* the value assigned to attribute req of the stub
StubValue == "w"

\* stub.req = v: __setattr__ reads only private names, so a stub that
\* still needs its reload keeps needing it
StubAssign(v) ==
    /\ handle[Stub].live
    /\ handle' = [handle EXCEPT ![Stub] = SetAttrObj(@, "req", v)]
    /\ last' = RefCall("stubassign", Stub, [req |-> v], FALSE, 0, PyNone)
    /\ UNCHANGED <<impl, table>>

\* stub._save(): getattr(self, VERSION_KEY) is a read of a public name, so
\* a stub that needs its reload is reloaded before the version is read
StubSave ==
    /\ handle[Stub].live
    /\ LocalVersion(Reloaded(handle[Stub])) < MaxRefVersion
    /\ LET r == SaveResult(Reloaded(handle[Stub]), FALSE, TRUE, TRUE, FALSE, "none")
       IN /\ handle' = [handle EXCEPT ![Stub] = r.obj]
          /\ table' = TableAfterPut(r.item, r.outcome)
          /\ last' = [RefCall("stubsave", Stub, << >>, FALSE,
                              ReloadFetches(handle[Stub]), PyNone)
                          EXCEPT !.outcome = r.outcome]
    /\ UNCHANGED impl

NextRef ==
    \/ StubAssign(StubValue)
    \/ StubSave
    \/ \E kw \in ReferrerKwargs, override \in BOOLEAN : RefConstruct(kw, override)
    \/ \E kw \in ReferentKwargs : RefConstructReferent(kw)
    \/ RefAssign
    \/ \E v \in RefPlainValues : RefAssignPlain(v)
    \/ \E h \in Handles : RefSave(h)
    \/ TocoDelete(Referent)
    \/ RefRead
    \/ RefDeserialize
    \/ \E n \in StubReads : StubRead(n)

SpecRef == InitRef /\ [][NextRef]_vars

\* C17: building a stub from a reference makes no get_item call; the
\* referent's row is fetched by the first attribute read on the stub, and
\* that read returns once the reload is done (the stub then holds the row
\* and no longer needs a reload).
StubConstructionDefersFetch ==
    /\ (last.op = "read" /\ last.value = PyObject(Stub)) => last.fetches = 0
    /\ (last.op = "access" /\ last.reloading)
       => /\ last.fetches = 1
          /\ ~Callee.needs_reloaded
          /\ Callee.obj_dict = table[OtherKey]

\* the attributes a constructor call gave, as the values it would store:
\* the keyword arguments, and the reference of h2 when ref was given as
\* that object
GivenOverrides ==
    IF last.override
    THEN DictPut(last.kwargs, RefAttr, ForeignKeyOf(handle[Referent]).s)
    ELSE last.kwargs

\* C15: a construction that loads an existing row takes the loaded
\* attributes as a clean baseline: the handle is in-database, and a name
\* is a pending change exactly when the constructor was given a value for
\* it that differs from the value just loaded.
OverridePendingIffDiffers ==
    (last.op = "construct" /\ last.h = Referrer /\ table[TheKey] # EmptyItem)
    => /\ Callee.in_db
       /\ \A n \in DOMAIN Callee.obj_dict \ {VERSION_KEY} :
              n \in Callee.obj_updates
                  <=> /\ n \in DOMAIN GivenOverrides
                      /\ \/ n \notin DOMAIN table[TheKey]
                         \/ LoadConstantFkeys(table[TheKey])[n] # GivenOverrides[n]

\* the handle holds the saved row of h1 and nothing else: what a fresh
\* handle constructed from the key of h1 holds
FreshlyLoaded(o) ==
    /\ o.live /\ o.in_db /\ o.obj_updates = {}
    /\ table[TheKey] # EmptyItem
    /\ o.obj_dict = LoadConstantFkeys(table[TheKey])

\* C19: storing object h2 as attribute ref of h1, saving h1, loading h1 in
\* a fresh handle and reading ref returns an object equal to h2 by type
\* and key: the object returned has the class of h2 and the key of h2,
\* and its key attributes read as those of h2.
ReferenceReadsBackReferent ==
    /\ (last.op = "read" /\ last.value = PyObject(Stub) /\ FreshlyLoaded(Callee))
       => /\ handle[Stub].cls = handle[Referent].cls
          /\ GetKeyDict(handle[Stub], EmptyItem) = OtherKey
    /\ (last.op = "access" /\ last.reloading /\ FreshlyLoaded(handle[Referrer]))
       => /\ handle[Stub].cls = handle[Referent].cls
          /\ PlainValue(handle[Stub], HashKeyName) = PyStr(OtherKey[HashKeyName])
          /\ PlainValue(handle[Stub], RangeKeyName) = PyStr(OtherKey[RangeKeyName])

\* C30: once a handle has deleted the row, a non-force upsert save from
\* another handle, which holds the row as loaded at a version N >= 1, is
\* rejected as a conflict and the row stays deleted.
DeletedRowStaysDeleted ==
    [][(/\ last.op = "delete" /\ last.outcome = "ok"
        /\ last'.op = "save" /\ last'.h # last.h
        /\ ~last'.force /\ last'.sim /\ last'.sie /\ ~last'.oiu
        /\ handle[last'.h].in_db /\ last'.ver >= 1)
       => (last'.outcome = "conflict" /\ table'[TheKey] = EmptyItem)]_vars

\* C29: in every state of a handle, an assignment to an attribute other
\* than the version is recorded as a pending change, and the deletion of a
\* present attribute does not raise, removes the attribute and records
\* the removal as a pending change.
WritesAndDeletesRecorded ==
    [][\A n \in REQUIRED_ATTRS :
          /\ (\E v \in AttrValues : TocoSetAttr(TheHandle, n, v))
             => n \in handle'[TheHandle].obj_updates
          /\ (TocoDelAttr(TheHandle, n) /\ n \in DOMAIN handle[TheHandle].obj_dict)
             => /\ last'.outcome = "ok"
                /\ n \notin DOMAIN handle'[TheHandle].obj_dict
                /\ n \in handle'[TheHandle].obj_updates]_vars

\* C21: reading an attribute whose stored value is not a well-formed
\* reference (a cut or prefix-less reference, a prefixed payload that is no
\* json, that lacks the type or the key, or whose key is not a map) treats
\* the value as not a reference and never raises.
MalformedReadsAsPlain ==
    last.op = "read" => (last.ok /\ last.outcome = "plain")

(***************************************************************************)
(* SpecSafe: the store-safe conversion of nested values.  An object whose  *)
(* attribute data holds a str, a list or a dict (of str, lists and dicts)  *)
(* is saved, and the row is loaded by a fresh handle.                      *)
(***************************************************************************)
PyList(l) == [t |-> "list", l |-> l]

\* ensure_ddbsafe(d) of a str, dict or list
RECURSIVE EnsureDdbSafeShallow(_)
EnsureDdbSafeShallow(v) ==
    CASE v.t = "str" -> IF Len(v.s) = 0 THEN PyStr(FKEY_EMPTY_STRING) ELSE v
      [] v.t = "dict" -> PyDict([k \in DOMAIN v.d |-> EnsureDdbSafeShallow(v.d[k])])
      [] OTHER -> v

RECURSIVE EnsureDdbSafeValue(_)
EnsureDdbSafeValue(v) ==
    CASE v.t = "str" -> IF Len(v.s) = 0 THEN PyStr(FKEY_EMPTY_STRING) ELSE v
      [] v.t = "dict" -> PyDict([k \in DOMAIN v.d |-> EnsureDdbSafeValue(v.d[k])])
      [] v.t = "list" -> PyList([i \in DOMAIN v.l |-> EnsureDdbSafeValue(v.l[i])])
      [] OTHER -> v

\* load_constant_fkeys(d) of a str, dict or list
RECURSIVE LoadConstantFkeysValue(_)
LoadConstantFkeysValue(v) ==
    CASE v.t = "str" -> IF v.s \in CONSTANT_FKEYS THEN PyStr("") ELSE v
      [] v.t = "dict" -> PyDict([k \in DOMAIN v.d |-> LoadConstantFkeysValue(v.d[k])])
      [] v.t = "list" -> PyList([i \in DOMAIN v.l |-> LoadConstantFkeysValue(v.l[i])])
      [] OTHER -> v

SafeAtoms == { PyStr(""), PyStr("v") }

SafeLists(S) == { PyList(<<>>) } \cup { PyList(<<x>>) : x \in S }
                    \cup { PyList(<<x, y>>) : x \in S, y \in S }

SafeDicts(S) == { PyDict(<< >>) } \cup { PyDict([k1 |-> x]) : x \in S }
                    \cup { PyDict([k1 |-> x, k2 |-> y]) : x \in S, y \in S }

SafeContainers == SafeLists(SafeAtoms) \cup SafeDicts(SafeAtoms)

\* the values of the attribute: a str, a container of str, a container
\* holding one container
SafeValues ==
    SafeAtoms \cup SafeContainers
        \cup { PyList(<<c>>) : c \in SafeContainers }
        \cup { PyDict([k1 |-> c]) : c \in SafeContainers }

\* the bag of T(hk='a', rk='r', req='v', data=v)
SafeBag(v) ==
    [hk |-> PyStr("a"), rk |-> PyStr("r"), req |-> PyStr("v"), data |-> v,
     version_toco_ |-> PyInt(0)]

InitSafe ==
    /\ impl = "TocoObject"
    /\ table = [k \in Keys |-> EmptyItem]
    /\ \E v \in SafeValues :
           handle = [h \in Handles |->
                        IF h = TheHandle
                        THEN [NoHandle EXCEPT !.live = TRUE, !.obj_dict = SafeBag(v),
                                              !.obj_updates = {"hk", "rk", "req", "data"}]
                        ELSE NoHandle]
    /\ last = [op |-> "none"]

\* h1._save() on the empty table: the version is raised and _store puts
\* ensure_ddbsafe(dict_to_save)
SafeSave ==
    /\ last.op = "none"
    /\ LET o == handle[TheHandle]
           d == [o.obj_dict EXCEPT ![VERSION_KEY] = PyInt(@.i + 1)]
       IN /\ table' = [table EXCEPT ![TheKey] = EnsureDdbSafeValue(PyDict(d)).d]
          /\ handle' = [handle EXCEPT ![TheHandle] =
                            [o EXCEPT !.obj_dict = d, !.obj_updates = {},
                                      !.loaded_is_bag = TRUE,
                                      !.in_db = TRUE]]
    /\ last' = [op |-> "stored"]
    /\ UNCHANGED impl

\* h2 = T(hk='a', rk='r'): _update_attrs(**Item) assigns
\* load_constant_fkeys(Item)
SafeLoad ==
    /\ last.op = "stored"
    /\ handle' = [handle EXCEPT !["h2"] =
                      [NoHandle EXCEPT !.live = TRUE, !.in_db = TRUE,
                           !.obj_dict = LoadConstantFkeysValue(PyDict(table[TheKey])).d]]
    /\ last' = [op |-> "loaded"]
    /\ UNCHANGED <<impl, table>>

NextSafe == SafeSave \/ SafeLoad

SpecSafe == InitSafe /\ [][NextSafe]_vars

\* the value holds an empty string, at the top or nested
RECURSIVE HoldsStr(_, _)
HoldsStr(v, s) ==
    CASE v.t = "str" -> v.s = s
      [] v.t = "dict" -> \E k \in DOMAIN v.d : HoldsStr(v.d[k], s)
      [] v.t = "list" -> \E i \in DOMAIN v.l : HoldsStr(v.l[i], s)
      [] OTHER -> FALSE

\* C22: an attribute whose value is an empty string, at the top level or
\* nested in a map or list, is stored as the sentinel and never as an
\* empty string, and a fresh load reads the empty string back: the loaded
\* value is the value that was saved.
EmptyStringStoredAsSentinel ==
    /\ last.op \in {"stored", "loaded"}
       => /\ ~HoldsStr(PyDict(table[TheKey]), "")
          /\ HoldsStr(handle[TheHandle].obj_dict[DataAttr], "")
             => HoldsStr(table[TheKey][DataAttr], FKEY_EMPTY_STRING)
    /\ last.op = "loaded"
       => handle["h2"].obj_dict[DataAttr] = handle[TheHandle].obj_dict[DataAttr]

EmptyStringStoredAsSentinelWitness ==
    /\ last.op = "loaded"
    /\ handle[TheHandle].obj_dict[DataAttr] = PyDict([k1 |-> PyList(<<PyStr("v"), PyStr("")>>)])
    /\ table[TheKey][DataAttr]
           = PyDict([k1 |-> PyList(<<PyStr("v"), PyStr(FKEY_EMPTY_STRING)>>)])
    /\ handle["h2"].obj_dict[DataAttr] = handle[TheHandle].obj_dict[DataAttr]

(***************************************************************************)
(* SpecCompound: compound attributes and the names that are persisted.     *)
(* h1 is an object of type A, h2 an object of type B, both plain           *)
(* subclasses of TocoObject with a row each.  Neither class body assigns   *)
(* _COMPOUND_ATTRS, so cls._COMPOUND_ATTRS is for both the dictionary      *)
(* created in the body of BaseTocoObject.                                  *)
(***************************************************************************)
MaxCompVersion == 2

CompoundAttr == "comp"

ReservedAttr == "toco_note"

TypeOf(h) == IF h = "h1" THEN PlainClass("m.A") ELSE PlainClass("m.B")

CompKwargs(h) ==
    IF h = "h1" THEN [hk |-> "a", rk |-> "r", req |-> "v"]
    ELSE [hk |-> "b", rk |-> "r", req |-> "v"]

\* __getattribute__(name) for a public name of a plain or compound
\* attribute; a miss returns None
GetAttribute(o, name) ==
    IF name \in DOMAIN o.obj_dict THEN ReadAttr(o, name)
    ELSE IF name \in DOMAIN o.cls.compound THEN CompoundValue(o)
    ELSE "None"

\* "_toco_" in k
Contains(s, sub) ==
    \E i \in 1..(Len(s) - Len(sub) + 1) : SubSeq(s, i, i + Len(sub) - 1) = sub

EndsWith(s, p) == Len(s) >= Len(p) /\ SubSeq(s, Len(s) - Len(p) + 1, Len(s)) = p

\* the names _get_data_dict removes
IsReservedName(k) ==
    \/ StartsWith(k, "toco_")
    \/ EndsWith(k, "_toco")
    \/ Contains(k, "_toco_")
    \/ StartsWith(k, "_")

InitCompound ==
    /\ impl = "TocoObject"
    /\ table = [k \in Keys |-> EmptyItem]
    /\ handle = [h \in Handles |-> [NoHandle EXCEPT !.cls = TypeOf(h)]]
    /\ last = Idle

\* h = type(h)(**kwargs)
CompConstruct(h) ==
    /\ handle' = [handle EXCEPT ![h] =
                      [TocoInit(CompKwargs(h), "none") EXCEPT !.cls = handle[h].cls]]
    /\ last' = Noted("construct", h, "ok")
    /\ UNCHANGED <<impl, table>>

\* type(h)._add_compound_attr("comp", func, save): the entry is assigned in
\* the dictionary cls._COMPOUND_ATTRS names, the one every class shares
AddCompoundAttr(h, save) ==
    /\ handle' = [g \in Handles |->
                     [handle[g] EXCEPT !.cls.compound =
                          DictPut(@, CompoundAttr, [save |-> save])]]
    /\ last' = Noted("add", h, "ok")
    /\ UNCHANGED <<impl, table>>

\* type(h)._remove_compound_attr("comp")
RemoveCompoundAttr(h) ==
    /\ CompoundAttr \in DOMAIN handle[h].cls.compound
    /\ handle' = [g \in Handles |->
                     [handle[g] EXCEPT !.cls.compound = DictDel(@, CompoundAttr)]]
    /\ last' = Noted("remove", h, "ok")
    /\ UNCHANGED <<impl, table>>

CompSave(h) ==
    /\ LocalVersion(handle[h]) < MaxCompVersion
    /\ TocoSave(h, FALSE, TRUE, TRUE, FALSE, "none")

\* the object of type A is written, saved and reloaded; the object of
\* type B is constructed and saved
NextCompound ==
    \/ \E h \in Handles : CompConstruct(h)
    \/ \E save \in BOOLEAN : AddCompoundAttr(TheHandle, save)
    \/ RemoveCompoundAttr(TheHandle)
    \/ \E v \in PeerValues : TocoSetAttr(TheHandle, DataAttr, v)
    \/ TocoSetAttr(TheHandle, ReservedAttr, "x")
    \/ \E h \in Handles : CompSave(h)
    \/ TocoReload(TheHandle, "none")

SpecCompound == InitCompound /\ [][NextCompound]_vars

\* the item a successful save of the callee wrote
WrittenItem == table[GetKeyDict(Callee, EmptyItem)]

\* C25: in every item a save writes, a compound attribute registered with
\* save=False does not appear, and one registered with save=True appears
\* with the output of its function on the object at the time of the save.
SavedCompoundMatchesFunction ==
    (last.op = "save" /\ last.outcome = "ok")
        => \A a \in DOMAIN Callee.cls.compound :
               IF Callee.cls.compound[a].save
               THEN a \in DOMAIN WrittenItem /\ WrittenItem[a] = CompoundValue(Callee)
               ELSE a \notin DOMAIN WrittenItem

\* C26: the registry is per type: adding or removing a compound attribute
\* on type A changes neither what a live object of type B returns when the
\* attribute is read nor what it would persist on save.
RegistryIsPerType ==
    [][(last'.op \in {"add", "remove"} /\ last'.h = "h1" /\ handle["h2"].live)
          => /\ GetAttribute(handle'["h2"], CompoundAttr)
                   = GetAttribute(handle["h2"], CompoundAttr)
             /\ GetDictToSave(handle'["h2"]) = GetDictToSave(handle["h2"])]_vars

\* C27: no item written by a save holds an attribute whose name matches a
\* reserved pattern (starts with "toco_" or "_", ends with "_toco",
\* contains "_toco_"), except the version counter.
NoReservedNamePersisted ==
    (last.op = "save" /\ last.outcome = "ok")
        => \A k \in DOMAIN WrittenItem : IsReservedName(k) => k = VERSION_KEY

(***************************************************************************)
(* SpecCF: types bound to stack resources.  handle[h].cls is the class     *)
(* T.lazysubclass(stack, logical) made for h, or made from the class of    *)
(* the other handle; before it is made, the record stands for the base     *)
(* type T(CFObject), which has no coordinates.  Class attributes are       *)
(* looked up through the bases: template is the class's own _CF_TEMPLATE   *)
(* ("unset" when the class has none of its own, "none" when it is None),   *)
(* resdict names the dictionary cls._CF_RESOURCES resolves to ("root":     *)
(* the one created in the body of CFObject) and resources is the content   *)
(* of that dictionary, kept equal in all classes that resolve to it.       *)
(***************************************************************************)
Stacks == {"s1", "s2"}

Logicals == {"T", "U"}

\* the CloudFormation service: get_template and describe_stack_resource;
\* every stack declares a table under every logical name
TemplateBody(stack) == "tpl:" \o stack

PhysicalResourceId(stack, logical) == stack \o "-" \o logical \o "-id"

CFBase ==
    [name |-> "m.T", cf |-> TRUE, stack |-> "", logical |-> "",
     compound |-> EmptyItem, parent |-> "base", template |-> "unset",
     resdict |-> "root", resources |-> EmptyItem]

\* getattr(cls, "_CF_TEMPLATE"): the class's own attribute, else the one of
\* the class it was derived from, else CFObject's None
LookupTemplate(h) ==
    LET c == handle[h].cls
    IN IF c.template # "unset" THEN c.template
       ELSE IF c.parent \in Handles /\ handle[c.parent].cls.template # "unset"
       THEN handle[c.parent].cls.template
       ELSE "none"

\* lazysubclass(stack_name, logical_name) of the base type or of the class
\* of handle p: a new class with its own coordinates and no cache attribute
\* of its own
LazySubclass(p, stack, logical) ==
    LET b == IF p \in Handles THEN handle[p].cls ELSE CFBase
    IN [b EXCEPT !.stack = stack, !.logical = logical, !.parent = p,
                 !.template = "unset"]

InitCF ==
    /\ impl = "TocoObject"
    /\ table = [k \in Keys |-> EmptyItem]
    /\ handle = [h \in Handles |-> [NoHandle EXCEPT !.cls = CFBase]]
    /\ last = [op |-> "none", h |-> "h1", template |-> "", physical |-> ""]

\* the class of h is made: from the base type (it then resolves
\* _CF_RESOURCES as the base type does) or from the class of the other
\* handle
CFBind(h, p, stack, logical) ==
    /\ ~handle[h].live
    /\ p \in Handles => (p # h /\ handle[p].live)
    /\ LET c == LazySubclass(p, stack, logical)
       IN handle' = [handle EXCEPT ![h] =
                         [@ EXCEPT !.live = TRUE,
                                   !.cls = IF p \in Handles THEN c
                                           ELSE [c EXCEPT !.resdict = handle[h].cls.resdict,
                                                          !.resources = handle[h].cls.resources]]]
    /\ last' = [op |-> "bind", h |-> h, template |-> "", physical |-> ""]
    /\ UNCHANGED <<impl, table>>

\* _get_template(): a miss fetches the template of the class's stack and
\* sets it on the class
GetTemplate(h) ==
    IF LookupTemplate(h) = "none" THEN TemplateBody(handle[h].cls.stack)
    ELSE LookupTemplate(h)

\* _describe_stack_resource(): a miss (logical_name not in
\* cls._CF_RESOURCES) asks the service and stores the answer under the
\* logical name
DescribeStackResource(h) ==
    LET c == handle[h].cls
    IN IF c.logical \in DOMAIN c.resources THEN c.resources[c.logical]
       ELSE PhysicalResourceId(c.stack, c.logical)

\* cls._SCHEMA() of the class of h: the template, then the physical name
CFSchema(h) ==
    /\ handle[h].live
    /\ LET c == handle[h].cls
           template == GetTemplate(h)
           physical == DescribeStackResource(h)
       IN /\ handle' =
                 [g \in Handles |->
                     LET d == handle[g].cls
                         d1 == IF d.resdict = c.resdict
                               THEN [d EXCEPT !.resources = DictPut(@, c.logical, physical)]
                               ELSE d
                         d2 == IF g = h /\ LookupTemplate(h) = "none"
                               THEN [d1 EXCEPT !.template = template] ELSE d1
                     IN [handle[g] EXCEPT !.cls = d2]]
          /\ last' = [op |-> "schema", h |-> h, template |-> template,
                      physical |-> physical]
    /\ UNCHANGED <<impl, table>>

\* cls._clear_cf_cache() of the class of h: the class gets a _CF_TEMPLATE
\* of None and a new empty _CF_RESOURCES of its own; a class derived from
\* it that has no dictionary of its own resolves to the new one
ClearCfCache(h) ==
    /\ handle[h].live
    /\ handle' =
           [g \in Handles |->
               LET d == handle[g].cls
               IN IF g = h \/ (d.parent = h /\ handle[g].live /\ d.resdict # g)
                  THEN [handle[g] EXCEPT !.cls =
                            [d EXCEPT !.resdict = h, !.resources = EmptyItem,
                                      !.template = IF g = h THEN "none" ELSE @]]
                  ELSE handle[g]]
    /\ last' = [op |-> "clear", h |-> h, template |-> "", physical |-> ""]
    /\ UNCHANGED <<impl, table>>

NextCF ==
    \E h \in Handles :
        \/ \E p \in Handles \cup {"base"}, stack \in Stacks, logical \in Logicals :
               CFBind(h, p, stack, logical)
        \/ CFSchema(h)
        \/ ClearCfCache(h)

SpecCF == InitCF /\ [][NextCF]_vars

\* C28: every bound type resolves its template and its physical table name
\* from its own stack and logical name, whatever was resolved and cached
\* before.
ResolvesFromOwnCoordinates ==
    last.op = "schema"
        => /\ last.template = TemplateBody(Callee.cls.stack)
           /\ last.physical = PhysicalResourceId(Callee.cls.stack, Callee.cls.logical)

\* C23: for every continuation key, decoding the token made by encoding
\* the key gives the key back, whatever the length of the unpadded token
\* is modulo four.
TokenRoundTrips ==
    /\ last.op = "token" => last.ok
    /\ last.op = "untoken" => (last.ok /\ last.decoded = last.key)

(***************************************************************************)
(* SpecPage: paging through scan and query.  The table holds up to         *)
(* MaxRows rows of one partition (hk = 'a'), in the order of their range   *)
(* key, which is a str attribute or a number attribute.  table[i] is the   *)
(* i-th row, or the empty item.  A caller asks for a first page with a     *)
(* Limit and then follows the tokens.                                      *)
(***************************************************************************)
MaxRows == 4

PageSlots == 1..MaxRows

PageLimits == {1, 2}

\* the range key of the i-th row: "r", "rr", ... or Decimal(i)
RECURSIVE RangeText(_)
RangeText(i) == IF i = 0 THEN "" ELSE "r" \o RangeText(i - 1)

PageRangeKey(kt, i) == IF kt = "S" THEN PyStr(RangeText(i)) ELSE PyDecimal(i)

PageRow(kt, i) == [hk |-> PyStr("a"), rk |-> PageRangeKey(kt, i)]

RowsPresent == {i \in PageSlots : table[i] # EmptyItem}

\* the store's scan / query (KeyConditionExpression hk = 'a') with
\* ExclusiveStartKey (start: the slot of that key, 0 without one) and
\* Limit: the first rows after the start key, and a LastEvaluatedKey when
\* the limit stopped the read
RECURSIVE RowsAfter(_, _)
RowsAfter(start, limit) ==
    IF limit = 0 \/ \A i \in RowsPresent : i <= start THEN <<>>
    ELSE LET i == CHOOSE x \in RowsPresent :
                      x > start /\ \A y \in RowsPresent : y > start => x <= y
         IN <<i>> \o RowsAfter(i, limit - 1)

SearchResponse(start, limit) ==
    LET slots == RowsAfter(start, limit)
    IN [slots |-> slots,
        lek |-> Len(slots) = limit,
        LastEvaluatedKey |-> IF Len(slots) = limit
                             THEN PyDict(table[slots[Len(slots)]])
                             ELSE PyDict(EmptyItem)]

\* the slot of the row with the key map k
SlotOf(k) ==
    IF \E i \in PageSlots : PyDict(table[i]) = k
    THEN CHOOSE i \in PageSlots : PyDict(table[i]) = k
    ELSE 0

\* _parse_items: cls(_in_db=True, _attempt_load=False, **item) per item
ParseItems(slots) ==
    [j \in DOMAIN slots |-> [obj_dict |-> table[slots[j]], in_db |-> TRUE]]

PageIdle ==
    [op |-> "none", call |-> "scan", ok |-> TRUE, limit |-> 0, items |-> <<>>,
     has_token |-> FALSE, token |-> "", lek |-> FALSE, seen |-> <<>>]

InitPage ==
    /\ impl = "TocoObject"
    /\ \E kt \in {"S", "N"}, present \in SUBSET PageSlots :
           table = [i \in PageSlots |->
                       IF i \in present THEN PageRow(kt, i) ELSE EmptyItem]
    /\ handle = [h \in Handles |-> NoHandle]
    /\ last = PageIdle

\* cls.scan(Limit=limit, NextToken=token) / cls.query(KeyConditionExpression=
\* Key('hk').eq('a'), Limit=limit, NextToken=token): _preprocess_search_params
\* turns the token into ExclusiveStartKey, the store answers, and
\* _postprocess_search_results builds the objects and the next token. A
\* token that cannot be decoded or a key that cannot be encoded raises.
Search(call, limit, has_token, token, seen) ==
    LET start == IF has_token THEN DecodeNextToken(token) ELSE JsonFail
        results == SearchResponse(IF has_token THEN SlotOf(start.v) ELSE 0, limit)
        next == IF results.lek THEN EncodeNextToken(results.LastEvaluatedKey)
                ELSE [ok |-> TRUE, s |-> ""]
    IN IF has_token /\ ~start.ok
       THEN [PageIdle EXCEPT !.op = "page", !.call = call, !.ok = FALSE,
                             !.limit = limit, !.seen = seen]
       ELSE [op |-> "page", call |-> call, ok |-> next.ok, limit |-> limit,
             items |-> ParseItems(results.slots),
             has_token |-> results.lek /\ next.ok,
             token |-> IF results.lek /\ next.ok THEN next.s ELSE "",
             lek |-> results.lek,
             seen |-> seen \o results.slots]

\* the first page
PageFirst(call, limit) ==
    /\ last.op = "none"
    /\ last' = Search(call, limit, FALSE, "", <<>>)
    /\ UNCHANGED <<impl, table, handle>>

\* the next page, asked for with the token of the last one
PageNext ==
    /\ last.op = "page"
    /\ last.ok
    /\ last.has_token
    /\ last' = Search(last.call, last.limit, TRUE, last.token, last.seen)
    /\ UNCHANGED <<impl, table, handle>>

NextPage ==
    \/ \E call \in {"scan", "query"}, limit \in PageLimits : PageFirst(call, limit)
    \/ PageNext

SpecPage == InitPage /\ [][NextPage]_vars

\* the rows in the order the store reads them
RECURSIVE AllRows(_)
AllRows(start) ==
    IF \A i \in RowsPresent : i <= start THEN <<>>
    ELSE LET i == CHOOSE x \in RowsPresent :
                      x > start /\ \A y \in RowsPresent : y > start => x <= y
         IN <<i>> \o AllRows(i)

\* C24: a scan or query result carries a token exactly when the store's
\* response has a continuation key; the pages followed through the tokens
\* read on after that key, so that when a result comes without a token
\* every row has been returned exactly once.
PagesCoverEveryRowOnce ==
    last.op = "page"
        => /\ last.ok
           /\ last.has_token <=> last.lek
           /\ \E n \in 0..MaxRows : last.seen = SubSeq(AllRows(0), 1, n)
           /\ ~last.has_token => last.seen = AllRows(0)

\* C31: on any handle, a stub that has not been read included, a value
\* assigned to an attribute is what the next read of the attribute returns
\* and is in the item the next save writes.
AssignedValueIsReadAndSaved ==
    [][/\ (last.op = "assign" /\ ~last.override /\ RefRead)
          => last'.value = PyStr(handle[Referrer].obj_dict[RefAttr])
       /\ (last.op = "assign" /\ ~last.override /\ RefSave(Referrer)
              /\ last'.outcome = "ok")
          => table'[TheKey][RefAttr] = handle[Referrer].obj_dict[RefAttr]
       /\ (last.op = "stubassign" /\ StubRead("req"))
          => last'.value = PyStr(last.kwargs["req"])
       /\ (last.op = "stubassign" /\ StubSave /\ last'.outcome = "ok")
          => table'[OtherKey]["req"] = last.kwargs["req"]]_vars

(***************************************************************************)
(* SpecCache: the per-object cache of resolved references, _fkey_cache.    *)
(* h1 has two attributes that may hold object h2, a plain string or        *)
(* nothing; fkey_cache maps a name to the object cached for it.  The code  *)
(* writes the cache and never reads it, which is why the other             *)
(* behaviours do without it.                                               *)
(***************************************************************************)
CacheAttrs == {"ref", "ref2"}

WithCache(o, c) ==
    [live |-> o.live, obj_dict |-> o.obj_dict, mirror |-> o.mirror,
     in_db |-> o.in_db, obj_updates |-> o.obj_updates,
     needs_reloaded |-> o.needs_reloaded, cls |-> o.cls,
     loaded_is_bag |-> o.loaded_is_bag, fkey_cache |-> c]

\* the row of h2 as h2._save() writes it
ReferentRow == [hk |-> "b", rk |-> "r", req |-> "v", version_toco_ |-> 1]

InitCache ==
    /\ impl = "TocoObject"
    /\ \E row \in {EmptyItem, ReferentRow} :
           table = [k \in Keys |-> IF k = OtherKey THEN row ELSE EmptyItem]
    /\ \E kw \in ReferrerKwargs, kw2 \in ReferentKwargs :
           handle = [h \in RefHandles |->
                        IF h = Referrer
                        THEN WithCache(TocoInitFrom(kw, FALSE), EmptyItem)
                        ELSE IF h = Referent THEN TocoInitFrom(kw2, FALSE)
                        ELSE NoHandle]
    /\ last = [op |-> "none", h |-> Referrer, n |-> "ref", value |-> PyNone,
               fetches |-> 0, outcome |-> "ok"]

CacheCall(op, n, value, fetches, outcome) ==
    [op |-> op, h |-> Referrer, n |-> n, value |-> value, fetches |-> fetches,
     outcome |-> outcome]

\* h1.n = h2: the reference string is stored and h2 is cached for n
CacheAssign(n) ==
    /\ handle' = [handle EXCEPT ![Referrer] =
                      [SetAttrRef(@, n, handle[Referent])
                           EXCEPT !.fkey_cache = DictPut(@, n, Referent)]]
    /\ last' = CacheCall("assign", n, PyNone, 0, "ok")
    /\ UNCHANGED <<impl, table>>

\* h1.n = v for a plain string: the cache entry of n is deleted
CacheAssignPlain(n, v) ==
    /\ handle' = [handle EXCEPT ![Referrer] =
                      [SetAttrObj(@, n, v) EXCEPT !.fkey_cache = DictDel(@, n)]]
    /\ last' = CacheCall("assignplain", n, PyNone, 0, "ok")
    /\ UNCHANGED <<impl, table>>

\* del h1.n of a present attribute: the cache entry of n is deleted
CacheDelAttr(n) ==
    /\ n \in DOMAIN handle[Referrer].obj_dict
    /\ LET r == DelAttrResult(handle[Referrer], n)
       IN /\ handle' = [handle EXCEPT ![Referrer] =
                            [r.obj EXCEPT !.fkey_cache = DictDel(@, n)]]
          /\ last' = CacheCall("del", n, PyNone, 0, r.outcome)
    /\ UNCHANGED <<impl, table>>

\* h1.n: a stored reference is resolved by load_from_fkey, whose object is
\* cached for n and returned; the cache is not looked at
CacheRead(n) ==
    /\ LET o == handle[Referrer]
       IN IF n \in DOMAIN o.obj_dict /\ NamesObject(o.obj_dict[n])
          THEN /\ handle' = [handle EXCEPT
                                 ![Stub] = LoadFromFkey(o.obj_dict[n], TRUE),
                                 ![Referrer].fkey_cache = DictPut(@, n, Stub)]
               /\ last' = CacheCall("read", n, PyObject(Stub), InitFetches(TRUE), "ok")
          ELSE /\ last' = CacheCall("read", n, PlainValue(o, n), 0, "ok")
               /\ UNCHANGED handle
    /\ UNCHANGED <<impl, table>>

NextCache ==
    \E n \in CacheAttrs :
        \/ CacheAssign(n)
        \/ \E v \in RefPlainValues : CacheAssignPlain(n, v)
        \/ CacheDelAttr(n)
        \/ CacheRead(n)

SpecCache == InitCache /\ [][NextCache]_vars

\* C32: a read that follows the assignment of a live object to the
\* attribute returns that object from the cache and fetches nothing; the
\* assignment of a plain value and the deletion of the attribute remove
\* the cache entry.
ReadConsultsCache ==
    [][/\ (last.op = "assign" /\ CacheRead(last.n))
          => (last'.value = PyObject(Referent) /\ last'.fetches = 0)
       /\ \A n \in CacheAttrs :
              ((\E v \in RefPlainValues : CacheAssignPlain(n, v)) \/ CacheDelAttr(n))
                  => n \notin DOMAIN handle'[Referrer].fkey_cache]_vars

\* two handles hold the same attributes with the same readings, the same
\* local version and the same in-database flag
SameState(o, f) ==
    /\ DOMAIN o.obj_dict = DOMAIN f.obj_dict
    /\ \A n \in DOMAIN o.obj_dict : ReadAttr(o, n) = ReadAttr(f, n)
    /\ LocalVersion(o) = LocalVersion(f)
    /\ o.in_db = f.in_db

\* C33: a reload leaves the handle in the state a fresh handle constructed
\* from the same key is in: the same attribute values, key attributes
\* included, the same local version and the same in-database flag, whether
\* the row exists or not.
ReloadMatchesFreshHandle ==
    [][(TocoReload(TheHandle, "none") /\ last'.outcome = "ok")
          => SameState(handle'[TheHandle],
                       TocoInit(GetKeyDict(handle[TheHandle], EmptyItem), "none"))]_vars

\* C34: the snapshot of what was last persisted holds the attribute values
\* as of the handle's most recent successful load, save or reload, and an
\* assignment or a deletion on the handle leaves it as it was.
SnapshotKeepsPersistedValues ==
    [][/\ (last'.op \in {"save", "update", "reload"} /\ last'.outcome = "ok"
              /\ last' # last)
          => ObjLoaded(handle'[TheHandle]) = handle'[TheHandle].obj_dict
       /\ \A n \in REQUIRED_ATTRS :
              ((\E v \in AttrValues : TocoSetAttr(TheHandle, n, v))
                   \/ TocoDelAttr(TheHandle, n))
                  => ObjLoaded(handle'[TheHandle]) = ObjLoaded(handle[TheHandle])]_vars

\* ---------------------------------------------------------------------
\* The attribute bag on its own: class blob
\* ---------------------------------------------------------------------
\* handle[TheHandle] is one blob: obj_dict is the dict storage, fields is the
\* instance's own attributes other than the two bookkeeping ones.

RESERVED_KEYS == {"__predefined_attributes__", "__raise_on_miss", "_blob__raise_on_miss"}

\* names of the model that are in __predefined_attributes__: "keys" is in
\* dir(self), the other two are appended by __init__
PredefinedAttributes == {"keys", "__predefined_attributes__", "__raise_on_miss"}

BlobPlainNames == {"x", "y"}
BlobNames == BlobPlainNames \cup {"keys", "__raise_on_miss"}
BlobValues == {"v", "w"}
BlobDicts == {DictPut(EmptyItem, "x", "w"), DictPut(DictPut(EmptyItem, "x", "v"), "y", "w")}

BlobOf(m, f) == [obj_dict |-> m, fields |-> f]

\* blob.__setitem__
BlobSetItemResult(b, key, value) ==
    BlobOf(DictPut(b.obj_dict, key, value),
           IF key \notin PredefinedAttributes
           THEN DictPut(b.fields, key, value) ELSE b.fields)

\* blob.__setattr__
BlobSetAttrResult(b, name, value) ==
    LET c == BlobOf(b.obj_dict, DictPut(b.fields, name, value))
    IN IF name \notin RESERVED_KEYS THEN BlobSetItemResult(c, name, value) ELSE c

InitBlob ==
    /\ impl = "TocoObject"
    /\ table = [k \in Keys |-> EmptyItem]
    /\ handle = [h \in {TheHandle} |-> BlobOf(EmptyItem, EmptyItem)]
    /\ last = [op |-> "none", n |-> "x", outcome |-> "ok"]

BlobCall(op, name, outcome) == [op |-> op, n |-> name, outcome |-> outcome]

\* b.name = value
BlobSetAttr(name, value) ==
    /\ handle' = [handle EXCEPT ![TheHandle] = BlobSetAttrResult(@, name, value)]
    /\ last' = BlobCall("setattr", name, "ok")
    /\ UNCHANGED <<impl, table>>

\* b[key] = value
BlobSetItem(key, value) ==
    /\ handle' = [handle EXCEPT ![TheHandle] = BlobSetItemResult(@, key, value)]
    /\ last' = BlobCall("setitem", key, "ok")
    /\ UNCHANGED <<impl, table>>

\* del b[key]: the entry is removed first; delattr then raises
\* AttributeError when the instance has no such field
BlobDelItem(key) ==
    LET b == handle[TheHandle]
    IN /\ IF key \notin DOMAIN b.obj_dict
          THEN /\ last' = BlobCall("delitem", key, "keyerror")
               /\ UNCHANGED handle
          ELSE IF key \in PredefinedAttributes
          THEN /\ handle' = [handle EXCEPT ![TheHandle].obj_dict = DictDel(@, key)]
               /\ last' = BlobCall("delitem", key, "ok")
          ELSE /\ handle' = [handle EXCEPT ![TheHandle] =
                                 BlobOf(DictDel(b.obj_dict, key), DictDel(b.fields, key))]
               /\ last' = BlobCall("delitem", key,
                                   IF key \in DOMAIN b.fields THEN "ok" ELSE "attrerror")
       /\ UNCHANGED <<impl, table>>

\* b.update(d), as _load calls it: dict.update stores the entries without
\* calling the overridden __setitem__
BlobUpdate(d) ==
    /\ handle' = [handle EXCEPT ![TheHandle].obj_dict = DictUpdate(@, d)]
    /\ last' = BlobCall("update", "x", "ok")
    /\ UNCHANGED <<impl, table>>

NextBlob ==
    \/ \E name \in BlobNames, value \in BlobValues : BlobSetAttr(name, value)
    \/ \E key \in BlobNames, value \in BlobValues : BlobSetItem(key, value)
    \/ \E key \in BlobNames : BlobDelItem(key)
    \/ \E d \in BlobDicts : BlobUpdate(d)

SpecBlob == InitBlob /\ [][NextBlob]_vars

\* the dict storage and the fields hold the same plain names with the same
\* values
BlobViewsAgree ==
    \A name \in BlobPlainNames :
        /\ name \in DOMAIN handle[TheHandle].obj_dict
               <=> name \in DOMAIN handle[TheHandle].fields
        /\ name \in DOMAIN handle[TheHandle].obj_dict
               => handle[TheHandle].obj_dict[name] = handle[TheHandle].fields[name]

\* C35: after any sequence of set, delete and bulk-update operations the
\* bag's map and its mirrored fields hold the same non-reserved names with
\* the same values, and a field assignment to a name on the reserved
\* deny-list leaves the map as it was.
MapAndFieldsAgree ==
    [][/\ (last'.op \in {"setattr", "setitem", "delitem", "update"} /\ last'.outcome = "ok")
          => BlobViewsAgree'
       /\ \A name \in BlobNames \cap RESERVED_KEYS :
              (\E value \in BlobValues : BlobSetAttr(name, value))
                  => handle'[TheHandle].obj_dict = handle[TheHandle].obj_dict]_vars

\* ---------------------------------------------------------------------
\* Objects built from the rows of a query or a scan
\* ---------------------------------------------------------------------
\* h1 writes rows; h2 is the object _parse_items builds from the row a
\* search returns.
Materialized == "h2"

\* cls(_in_db=True, _attempt_load=False, **item) for one item of the response
ParseItem(item) == [TocoInitFrom(item, FALSE) EXCEPT !.in_db = TRUE]

InitMat == Init /\ impl = "TocoObject"

\* cls.scan(): the row under TheKey comes back and is built into an object
Materialize ==
    /\ table[TheKey] # EmptyItem
    /\ handle' = [handle EXCEPT ![Materialized] = ParseItem(table[TheKey])]
    /\ last' = [Idle EXCEPT !.op = "materialize", !.h = Materialized,
                            !.outcome = "ok", !.row = table[TheKey]]
    /\ UNCHANGED <<impl, table>>

\* obj._save(only_if_updated=True) on the materialized object
MatSave == TocoSave(Materialized, FALSE, TRUE, TRUE, TRUE, "none")

NextMat ==
    \/ \E kw \in KwargsSet : TocoConstruct(TheHandle, kw, "none")
    \/ \E n \in REQUIRED_ATTRS, v \in AttrValues : TocoSetAttr(TheHandle, n, v)
    \/ TocoSave(TheHandle, FALSE, TRUE, TRUE, FALSE, "none")
    \/ Materialize
    \/ MatSave

SpecMat == InitMat /\ [][NextMat]_vars

\* C36: an object materialized by query or scan is built without a fetch,
\* is marked in-database with the row's stored version and has no pending
\* changes, so an only-if-dirty save on it, unmodified, issues no write.
MaterializedIsClean ==
    [][/\ Materialize
          => /\ InitFetches(FALSE) = 0
             /\ handle'[Materialized].in_db
             /\ LocalVersion(handle'[Materialized]) = table[TheKey][VERSION_KEY]
             /\ handle'[Materialized].obj_updates = {}
       /\ (last.op = "materialize" /\ MatSave)
          => (table' = table /\ last'.outcome = "noop")]_vars

\* ---------------------------------------------------------------------
\* Search parameters: _preprocess_search_params
\* ---------------------------------------------------------------------
\* Keyword arguments are a function from parameter names to tagged values;
\* a key condition is a record naming the operator, the key and the
\* arguments.
PyTuple(l) == [t |-> "tuple", l |-> l]

KeyCond(op, name, args) == [t |-> "cond", op |-> op, name |-> name, args |-> args]
KeyAnd(a, b) == [t |-> "and", left |-> a, right |-> b]
GivenCondition == KeyCond("eq", HashKeyName, <<PyStr("z")>>)

\* python truth of params.get(k, None)
Truthy(params, k) ==
    /\ k \in DOMAIN params
    /\ params[k] \notin {PyStr(""), PyTuple(<<>>), PyNone}

SearchToken == "eyJoayI6ICJhIn0"

HashShortcuts == {PyStr("a"), PyStr("")}
RangeShortcuts ==
    {PyStr("r"), PyTuple(<<"begins_with", PyStr("r")>>),
     PyTuple(<<"between", PyStr("a"), PyStr("z")>>)}

\* one optional argument: absent, or present with one of the values
OptArg(k, values) == {EmptyItem} \cup {DictPut(EmptyItem, k, v) : v \in values}

SearchKwargs ==
    { DictUpdate(DictUpdate(DictUpdate(DictUpdate(DictUpdate(a, b), c), d), e), f) :
          a \in OptArg("HashKey", HashShortcuts),
          b \in OptArg("RangeKey", RangeShortcuts),
          c \in OptArg(HashKeyName, {PyStr("a")}),
          d \in OptArg(RangeKeyName, {PyStr("r")}),
          e \in OptArg("KeyConditionExpression", {GivenCondition}),
          f \in OptArg("NextToken", {PyStr(SearchToken)}) }

\* the first two statements: NextToken becomes ExclusiveStartKey and is
\* removed
WithStartKey(params) ==
    LET start == IF Truthy(params, "NextToken") /\ ~Truthy(params, "ExclusiveStartKey")
                 THEN DecodeNextToken(params["NextToken"].s) ELSE JsonFail
        p1 == IF start.ok THEN DictPut(params, "ExclusiveStartKey", start.v) ELSE params
    IN DictDel(p1, "NextToken")

\* params[name] moves to params[shortcut] when the shortcut is not given
MoveToShortcut(params, name, shortcut) ==
    IF Truthy(params, name) /\ ~Truthy(params, shortcut)
    THEN DictDel(DictPut(params, shortcut, params[name]), name)
    ELSE params

\* the condition for the range key; the scalar branch names rk_arg, which is
\* bound nowhere, so it raises NameError
RangeCondition(rk) ==
    IF rk.t = "tuple"
    THEN [ok |-> TRUE, c |-> KeyCond(rk.l[1], RangeKeyName, SubSeq(rk.l, 2, Len(rk.l)))]
    ELSE [ok |-> FALSE, c |-> PyNone]

PreprocessSearchParams(kwargs) ==
    LET p0 == WithStartKey(kwargs)
        p1 == MoveToShortcut(MoveToShortcut(p0, HashKeyName, "HashKey"),
                             RangeKeyName, "RangeKey")
        hkc == KeyCond("eq", HashKeyName, <<p1["HashKey"]>>)
        rkc == RangeCondition(p1["RangeKey"])
        p2 == IF Truthy(p0, "KeyConditionExpression") THEN p0
              ELSE IF ~Truthy(p1, "HashKey") THEN p1
              ELSE IF ~Truthy(p1, "RangeKey")
              THEN DictPut(p1, "KeyConditionExpression", hkc)
              ELSE DictPut(p1, "KeyConditionExpression", KeyAnd(hkc, rkc.c))
        raises == /\ ~Truthy(p0, "KeyConditionExpression")
                  /\ Truthy(p1, "HashKey")
                  /\ Truthy(p1, "RangeKey")
                  /\ ~rkc.ok
    IN IF raises THEN [ok |-> FALSE, error |-> "NameError", params |-> EmptyItem]
       ELSE [ok |-> TRUE, error |-> "",
             params |-> DictDel(DictDel(p2, "HashKey"), "RangeKey")]

InitSearch ==
    /\ impl = "TocoObject"
    /\ table = [k \in Keys |-> EmptyItem]
    /\ handle = [h \in Handles |-> NoHandle]
    /\ \E kw \in SearchKwargs :
           last = [op |-> "kwargs", call |-> "none", kwargs |-> kw,
                   result |-> [ok |-> TRUE, error |-> "", params |-> EmptyItem]]

\* cls.query(**kwargs) / cls.scan(**kwargs) up to the call of the store
SearchParams(call) ==
    /\ last.op = "kwargs"
    /\ last' = [op |-> "params", call |-> call, kwargs |-> last.kwargs,
                result |-> PreprocessSearchParams(last.kwargs)]
    /\ UNCHANGED <<impl, table, handle>>

NextSearch == \E call \in {"query", "scan"} : SearchParams(call)

SpecSearch == InitSearch /\ [][NextSearch]_vars

\* the call gave only the shortcuts HashKey and, for range, RangeKey
OnlyShortcuts(kw, range) ==
    /\ DOMAIN kw = {"HashKey"} \cup (IF range THEN {"RangeKey"} ELSE {})
    /\ kw["HashKey"] = PyStr("a")

\* C37: query and scan turn a hash shortcut alone into hash == value, a hash
\* shortcut with a scalar range shortcut into hash == value AND range ==
\* value, and a range shortcut (operator, args...) into that operator on the
\* range key; the shortcut parameters are not among the parameters passed to
\* the store.
ShortcutsBecomeKeyCondition ==
    last.op = "params" =>
        LET kw == last.kwargs
            r == last.result
            hkc == KeyCond("eq", HashKeyName, <<PyStr("a")>>)
        IN /\ OnlyShortcuts(kw, FALSE)
                  => (r.ok /\ r.params["KeyConditionExpression"] = hkc)
           /\ (OnlyShortcuts(kw, TRUE) /\ kw["RangeKey"].t = "str")
                  => (r.ok /\ r.params["KeyConditionExpression"]
                                  = KeyAnd(hkc, KeyCond("eq", RangeKeyName, <<kw["RangeKey"]>>)))
           /\ (OnlyShortcuts(kw, TRUE) /\ kw["RangeKey"].t = "tuple")
                  => (r.ok /\ r.params["KeyConditionExpression"]
                                  = KeyAnd(hkc, KeyCond(kw["RangeKey"].l[1], RangeKeyName,
                                                        SubSeq(kw["RangeKey"].l, 2,
                                                               Len(kw["RangeKey"].l)))))
           /\ r.ok => DOMAIN r.params \cap {"HashKey", "RangeKey"} = {}

\* ---------------------------------------------------------------------
\* Plain strings given by the user
\* ---------------------------------------------------------------------
\* h1 is assigned strings and saved; h2 is a fresh load of the same key.
MaxPlainVersion == 2
PlainAttrs == {"req"}
Loaded == "h2"

\* the string a reference to the row of OtherKey is stored as, as
\* _foreign_key() of T(hk='b', rk='r') gives it
ReferenceLike == "toco_fkey={\"class\":\"m.T\",\"key\":{\"hk\":\"b\",\"rk\":\"r\"}}"

PlainStrings ==
    {"v", "", FKEY_EMPTY_STRING, FKEY_PREFIX \o "x", ReferenceLike}

\* what __getattribute__ returns for a present attribute holding the string
\* v: v itself, the value of a constant reference, or the object that
\* load_from_fkey builds with get_class and one get_item
ReadResult(v) ==
    LET outcome == ReadOutcome(v)
    IN [outcome |-> outcome,
        value |-> CASE outcome = "plain" -> PyStr(v)
                    [] outcome = "constant" -> PyStr("")
                    [] outcome = "object" -> PyObject(FkeyMap(v)["class"].s)
                    [] OTHER -> PyNone,
        fetches |-> IF outcome = "object" THEN InitFetches(TRUE) ELSE 0]

PlainCall(op, h, n, r) ==
    [op |-> op, h |-> h, n |-> n, outcome |-> r.outcome, value |-> r.value,
     fetches |-> r.fetches]

NoRead == [outcome |-> "ok", value |-> PyNone, fetches |-> 0]

InitPlain ==
    /\ impl = "TocoObject"
    /\ table = [k \in Keys |-> EmptyItem]
    /\ handle = [h \in Handles |->
                    IF h = TheHandle
                    THEN TocoInit([hk |-> "a", rk |-> "r", req |-> "v"], "none")
                    ELSE NoHandle]
    /\ last = PlainCall("none", TheHandle, "req", NoRead)

\* h1.n = s
PlainAssign(n, s) ==
    /\ handle' = [handle EXCEPT ![TheHandle] = SetAttrObj(@, n, s)]
    /\ last' = PlainCall("assign", TheHandle, n, NoRead)
    /\ UNCHANGED <<impl, table>>

\* h1._save()
PlainSave ==
    /\ LocalVersion(handle[TheHandle]) < MaxPlainVersion
    /\ LET r == SaveResult(handle[TheHandle], FALSE, TRUE, TRUE, FALSE, "none")
       IN /\ handle' = [handle EXCEPT ![TheHandle] = r.obj]
          /\ table' = TableAfterPut(r.item, r.outcome)
          /\ last' = PlainCall("save", TheHandle, "req",
                               [NoRead EXCEPT !.outcome = r.outcome])
    /\ UNCHANGED impl

\* h2 = T(hk='a', rk='r')
PlainLoad ==
    /\ handle' = [handle EXCEPT ![Loaded] = TocoInit([hk |-> "a", rk |-> "r"], "none")]
    /\ last' = PlainCall("load", Loaded, "req", NoRead)
    /\ UNCHANGED <<impl, table>>

\* h.n of a present attribute
PlainRead(h, n) ==
    /\ handle[h].live
    /\ n \in DOMAIN handle[h].obj_dict
    /\ last' = PlainCall("read", h, n, ReadResult(handle[h].obj_dict[n]))
    /\ UNCHANGED <<impl, table, handle>>

NextPlain ==
    \/ \E n \in PlainAttrs, s \in PlainStrings : PlainAssign(n, s)
    \/ PlainSave
    \/ PlainLoad
    \/ \E h \in Handles, n \in PlainAttrs : PlainRead(h, n)

SpecPlain == InitPlain /\ [][NextPlain]_vars

\* the row is what h1 holds: h1 was saved and not assigned since
SavedAsHeld ==
    /\ handle[TheHandle].in_db
    /\ handle[TheHandle].obj_updates = {}
    /\ table[TheKey] # EmptyItem

\* C38: an attribute assigned a plain string reads back as that string, on
\* the object it was assigned on and on a fresh load after a save, whatever
\* the string, the ones beginning with the reference prefix and the
\* empty-string sentinel included, and the read loads no referent and
\* resolves no type.
PlainStringReadsBack ==
    [][\A n \in PlainAttrs :
          /\ PlainRead(TheHandle, n)
                => /\ last'.value = PyStr(handle[TheHandle].obj_dict[n])
                   /\ last'.outcome = "plain"
                   /\ last'.fetches = 0
          /\ (last.op = "load" /\ SavedAsHeld /\ PlainRead(Loaded, n))
                => /\ last'.value = PyStr(handle[TheHandle].obj_dict[n])
                   /\ last'.outcome = "plain"
                   /\ last'.fetches = 0]_vars

\* ---------------------------------------------------------------------
\* Eager loading in Object: __init__ and unroll_foreign_keys
\* ---------------------------------------------------------------------
\* One construction Object(load_depth=d, **key) is followed constructor by
\* constructor.  handle[i] is the object built i reference hops from the
\* first one; last names the constructor that is running and the load_depth
\* it was given.  Each row has at most one reference, so the calls form a
\* chain, and a chain longer than MaxHops is cut there.
MaxHops == 4
Hops == 0 .. MaxHops
LoadDepths == 0 .. 2

\* the string _foreign_key() gives for the object under (x, "r")
ReferenceTo(x) ==
    FKEY_PREFIX \o "{\"class\":\"m.T\",\"key\":{\"hk\":\"" \o x \o "\",\"rk\":\"r\"}}"

UnrollRows(k) ==
    LET row == [hk |-> k.hk, rk |-> k.rk, version_toco_ |-> 1]
    IN {EmptyItem, row} \cup {DictPut(row, "ref", ReferenceTo(x)) : x \in {"a", "b"}}

\* the attributes unroll_foreign_keys finds: those holding a reference
\* string
FkeyAttrs(o) ==
    {n \in DOMAIN o.obj_dict :
        /\ n \notin {VERSION_KEY, IN_DB_ATTR, "recurse"}
        /\ IsForeignKey(o.obj_dict[n])}

\* load_object(clazzname, **obj): get_class(clazzname)(recurse=0, **obj);
\* the constructor takes recurse as one more attribute and load_depth keeps
\* its default
DefaultLoadDepth == 1
LoadObject(kwargs) == ObjInit(DictPut(kwargs, "recurse", 0), "none")

UnrollCall(op, d, hops, load_depth) ==
    [op |-> op, d |-> d, hops |-> hops, load_depth |-> load_depth]

InitUnroll ==
    /\ impl = "Object"
    /\ \E ra \in UnrollRows(TheKey), rb \in UnrollRows(OtherKey) :
           table = [k \in Keys |-> IF k = TheKey THEN ra ELSE rb]
    /\ handle = [i \in Hops |-> NoHandle]
    /\ \E d \in LoadDepths : last = UnrollCall("none", d, 0, d)

\* T(load_depth=d, hk=..., rk=...) up to the call of unroll_foreign_keys
UnrollConstruct(k) ==
    /\ last.op = "none"
    /\ handle' = [handle EXCEPT ![0] = ObjInit(k, "none")]
    /\ last' = [last EXCEPT !.op = "built"]
    /\ UNCHANGED <<impl, table>>

\* unroll_foreign_keys(load_depth) with load_depth > 0 on an object holding
\* a reference: load_from_fkey constructs the referent
UnrollLoad ==
    /\ last.op = "built"
    /\ last.load_depth > 0
    /\ FkeyAttrs(handle[last.hops]) # {}
    /\ last.hops < MaxHops
    /\ LET n == CHOOSE x \in FkeyAttrs(handle[last.hops]) : TRUE
           fkey == handle[last.hops].obj_dict[n]
       IN handle' = [handle EXCEPT ![last.hops + 1] = LoadObject(FkeyKwargs(fkey))]
    /\ last' = UnrollCall("built", last.d, last.hops + 1, DefaultLoadDepth)
    /\ UNCHANGED <<impl, table>>

\* unroll_foreign_keys finds nothing to load: it returns, and so do the
\* callers, whose second unroll_foreign_keys(load_depth - 1) finds the
\* attribute holding an object
UnrollReturn ==
    /\ last.op = "built"
    /\ (last.load_depth = 0 \/ FkeyAttrs(handle[last.hops]) = {})
    /\ last' = [last EXCEPT !.op = "done"]
    /\ UNCHANGED <<impl, table, handle>>

NextUnroll ==
    \/ \E k \in Keys : UnrollConstruct(k)
    \/ UnrollLoad
    \/ UnrollReturn

SpecUnroll == InitUnroll /\ [][NextUnroll]_vars

\* C39: constructing an Object with load_depth = d terminates and loads
\* referenced objects at most d reference hops away (d = 0 loads only the
\* object itself), also when the rows reference each other in a cycle.
\* Every constructor call after the first is one hop further, so the bound
\* on the hops is the bound on the number of calls.
LoadsAtMostDepthAndTerminates ==
    last.op \in {"built", "done"} => last.hops <= last.d

\* ---------------------------------------------------------------------
\* Session tokens: toco.user.SessionToken
\* ---------------------------------------------------------------------
\* table holds the session rows by id, handle["h1"] the token object the
\* last call built, and last the call, its result and the clock.  Time is
\* counted in ticks from 1; a new token lives Lifetime ticks.
MaxTime == 4
Lifetime == 2
MaxSessionVersion == 2      \* expire() is called below this stored version
SessionIds == {"s1", "s2"}
GeneratedId == "g"          \* the random id made for a call without an id
RequestIds == SessionIds \cup {"None"}
SessionUser == "u"

SessionRow(id) == IF id \in SessionIds THEN table[id] ELSE EmptyItem

\* dict.get(k) is missing or falsy
NotSet(d, k) == k \notin DOMAIN d \/ d[k] = 0

\* SessionToken(id=id, **kwargs) at time now: Object.__init__ reads the row
\* and lays the keyword arguments over it; a token with neither created nor
\* expiry gets both
SessionInit(id, kwargs, now) ==
    LET id1 == IF id = "None" THEN GeneratedId ELSE id
        item == SessionRow(id1)
        d0 == [version_toco_ |-> 0, auto_extend |-> FALSE, extend_minute |-> 5]
        d1 == DictUpdate(DictUpdate(d0, item), DictPut(kwargs, "id", id1))
        d2 == IF NotSet(d1, "created") /\ NotSet(d1, "expiry")
              THEN DictPut(DictPut(d1, "created", now), "expiry", now + Lifetime)
              ELSE d1
    IN [NoHandle EXCEPT !.live = TRUE, !.obj_dict = d2, !.in_db = (item # EmptyItem)]

\* the item _store puts: the attributes and in_db
SessionItem(o) == DictPut(o.obj_dict, IN_DB_ATTR, o.in_db)

SessionCall(op, id, now, outcome, user, session) ==
    [op |-> op, id |-> id, now |-> now, outcome |-> outcome, user |-> user,
     session |-> session]

InitSession ==
    /\ impl = "Object"
    /\ table = [i \in SessionIds |-> EmptyItem]
    /\ handle = [h \in {TheHandle} |-> NoHandle]
    /\ last = SessionCall("none", "None", 1, "ok", "None", "None")

\* the clock advances
Tick ==
    /\ last.now < MaxTime
    /\ last' = [last EXCEPT !.now = @ + 1]
    /\ UNCHANGED <<impl, table, handle>>

\* user.get_new_session_token(): SessionToken(user=self) and create(), which
\* puts the row when the id is not in the table
NewSession(id) ==
    /\ table[id] = EmptyItem
    /\ LET o == [SessionInit(id, [user |-> SessionUser], last.now) EXCEPT !.in_db = TRUE]
       IN /\ handle' = [handle EXCEPT ![TheHandle] = o]
          /\ table' = [table EXCEPT ![id] = SessionItem(o)]
    /\ last' = SessionCall("new", id, last.now, "ok", "None", "None")
    /\ UNCHANGED impl

\* token.expire() on the token of a stored session: expiry = int(now - 1),
\* save(force=True)
Expire(id) ==
    /\ table[id] # EmptyItem
    /\ table[id][VERSION_KEY] < MaxSessionVersion
    /\ LET o == SessionInit(id, EmptyItem, last.now)
           d == [o.obj_dict EXCEPT !["expiry"] = last.now - 1,
                                   ![VERSION_KEY] = @ + 1]
           o1 == [o EXCEPT !.obj_dict = d, !.in_db = TRUE]
       IN /\ handle' = [handle EXCEPT ![TheHandle] = o1]
          /\ table' = [table EXCEPT ![id] = SessionItem(o1)]
    /\ last' = SessionCall("expire", id, last.now, "ok", "None", "None")
    /\ UNCHANGED impl

\* SessionToken.get_user_and_session(id); token.user of a token that has no
\* user raises AttributeError
GetUserAndSession(id) ==
    /\ LET token == SessionInit(id, EmptyItem, last.now)
       IN /\ handle' = [handle EXCEPT ![TheHandle] = token]
          /\ last' = IF token.obj_dict["expiry"] < last.now
                     THEN SessionCall("get", id, last.now, "ok", "None", "None")
                     ELSE IF "user" \in DOMAIN token.obj_dict
                     THEN SessionCall("get", id, last.now, "ok",
                                      token.obj_dict["user"], token.obj_dict["id"])
                     ELSE SessionCall("get", id, last.now, "attrerror", "None", "None")
    /\ UNCHANGED <<impl, table>>

NextSession ==
    \/ Tick
    \/ \E id \in SessionIds : NewSession(id)
    \/ \E id \in SessionIds : Expire(id)
    \/ \E id \in RequestIds : GetUserAndSession(id)

SpecSession == InitSession /\ [][NextSession]_vars

ReturnsNone(call) ==
    call.outcome = "ok" /\ call.user = "None" /\ call.session = "None"

\* C40: get_user_and_session(id) returns a session only if a row with that
\* id is stored and its expiry is not in the past; for an id with no stored
\* row, an absent id included, it returns (None, None); and after expire()
\* on a token it returns (None, None) for that token's id.
SessionOnlyForLiveRow ==
    [][\A id \in RequestIds :
          GetUserAndSession(id) =>
              /\ last'.session # "None"
                    => (SessionRow(id) # EmptyItem /\ SessionRow(id)["expiry"] >= last.now)
              /\ SessionRow(id) = EmptyItem => ReturnsNone(last')
              /\ (last.op = "expire" /\ last.id = id) => ReturnsNone(last')]_vars

====
